---- MODULE Spec2Model ----
(***************************************************************************)
(* Handle ownership of core::General::Thread and core::General::Process    *)
(* (libs/core/src/General/Thread.cpp, Process.cpp) over a model of the     *)
(* kernel's handle table.                                                  *)
(*                                                                         *)
(* Every method is one action.  The kernel calls a method makes are        *)
(* appended to kernel.calls in program order, the value it returns is in   *)
(* ret and its name in last, until the caller goes on to its next call     *)
(* (Continue).  A kernel call that can fail on the platform takes its      *)
(* outcome from a Boolean input of the action.                             *)
(***************************************************************************)
EXTENDS Integers, Sequences, FiniteSets, TLC

\* ------------------------------------------------------------------ bounds
MaxHandles == 2          \* thread handles, and process handles, the kernel can issue
MaxSuspend == 1          \* cap of a thread's suspend count
DWORD_BITS == 16         \* width DWORD is modelled with
MaxLen == 2          \* bytes in the longest std::string passed to create_utf8

\* ------------------------------------------------- Win32 values and types
NULL == 0
INVALID_HANDLE_VALUE == -1
DWORD_MOD == 2 ^ DWORD_BITS
INFINITE == DWORD_MOD - 1
STILL_ACTIVE == 259
WAIT_OBJECT_0 == 0
WAIT_TIMEOUT == 258
WAIT_FAILED == DWORD_MOD - 1
THREAD_PRIORITY_ERROR_RETURN == DWORD_MOD \div 2 - 1      \* MAXLONG

\* Type.h: enum class wait_status
signaled == WAIT_OBJECT_0
timeout == WAIT_TIMEOUT
failed == WAIT_FAILED

\* Thread.h / Process.h internal constants
INVALID_ID == 0
ERROR_STATUS == DWORD_MOD - 1
MAX_WAIT_TIMEOUT == INFINITE - 1

\* encoding of C++ results in ret
TRUE_ == 1
FALSE_ == 0
nullopt == -1

BoolRet(b) == IF b THEN TRUE_ ELSE FALSE_

\* static_cast<DWORD>(x)
ToDWORD(x) == x % DWORD_MOD

\* ------------------------------------------------------------ the universe
Objs == {"a", "b"}                         \* the wrapper objects of a program
ThreadHandles == 1 .. MaxHandles
ProcessHandles == {10 + i : i \in 1 .. MaxHandles}
RealHandles == ThreadHandles \cup ProcessHandles
Running == -2                              \* kernel.exit of a target that has not terminated
ExitCodes == {28, STILL_ACTIVE}
BogusId == 77                              \* an id a caller passes that is not the handle's
CurrentPid == 100
OsTid(h) == 100 + h                        \* the id the kernel gave the thread behind h
OsPid(h) == 100 + h
\* millisecond counts passed to wait_for: negative, small, at and above the clamp, above the DWORD range
Timeouts == {-1, 50, MAX_WAIT_TIMEOUT, INFINITE, DWORD_MOD + 5}

VARIABLES
    fixture,     \* "ThreadTest", "ProcessTest", "FileTest" or "Main": the program that runs
    alive,       \* the objects that are constructed and not yet destroyed
    thread,      \* thread[o] = [hThread_, tid_]
    process,     \* process[o] = [hProcess_, hThread_, pid_, tid_]
    kernel,      \* [owner, closes, exit, susp, calls]
    last,        \* <<method, object, arguments>> of the call that has just returned, <<>> between calls
    ret,         \* the value that call returned, as a tuple (<<>> for void)
    file,        \* file[o] = [hFile_]
    disk,        \* [exists, data, owner, pos, closes, calls]: the file of the tests and its handles
    mem,         \* [n, arr, min_el, max_el, av]: the globals of the demonstration program
    pc,          \* pc[t]: the statement thread t of the demonstration program executes next
    loc          \* loc[t]: the local variables of thread t of the demonstration program

fileVars == <<file, disk>>
mainVars == <<mem, pc, loc>>
coreVars == <<thread, process, kernel>>
vars == <<fixture, alive, thread, process, kernel, last, ret, file, disk, mem, pc, loc>>

\* ------------------------------------------------------------- the kernel
\* owner[h]: "free" never issued, "caller" raw handle in the caller's hands,
\*           "wrapper" handed to a Thread/Process, "closed" after CloseHandle.
\* closes[h]: number of CloseHandle(h) calls made by the wrappers (capped at 2).
\* exit[h]: Running, or the exit code of the thread/process behind h.
\* susp[h]: suspend count of the thread behind h.

Call(k, api, h, arg, res) ==
    [k EXCEPT !.calls = Append(@, [api |-> api, h |-> h, arg |-> arg, res |-> res])]

Begin(k) == [k EXCEPT !.calls = <<>>]

\* the kernel destroys the object behind a handle that has been closed: its exit
\* code and its suspend count can no longer be read
Reap(k) ==
    [k EXCEPT !.exit = [h \in RealHandles |-> IF k.owner[h] = "closed" THEN Running ELSE @[h]],
              !.susp = [h \in ThreadHandles |-> IF k.owner[h] = "closed" THEN 0 ELSE @[h]]]

CloseHandle(k, h) ==
    LET k1 == Call(k, "CloseHandle", h, 0, 0)
    IN IF h \in RealHandles
       THEN [k1 EXCEPT !.owner[h] = "closed",
                       !.closes[h] = IF @ < 2 THEN @ + 1 ELSE @]
       ELSE k1

\* the caller passes the raw handle h to a wrapper
Hand(k, h) == IF h \in RealHandles THEN [k EXCEPT !.owner[h] = "wrapper"] ELSE k

\* a wrapper returns the raw handle h to its caller
Return(k, h) ==
    IF h \in RealHandles /\ k.owner[h] = "wrapper" THEN [k EXCEPT !.owner[h] = "caller"] ELSE k

\* the next handle the kernel issues, NULL when the table is full
Fresh(k, pool) ==
    IF \E h \in pool : k.owner[h] = "free"
    THEN CHOOSE h \in pool : k.owner[h] = "free" /\ \A g \in pool : k.owner[g] = "free" => h <= g
    ELSE NULL

\* the handles a caller can pass to a wrapper: the two sentinels, a raw handle
\* it holds, or one it has just obtained from the kernel
Offered(k, pool) ==
    {NULL, INVALID_HANDLE_VALUE} \cup {h \in pool : k.owner[h] = "caller"} \cup ({Fresh(k, pool)} \ {NULL})

GetThreadId(h, ok) == IF ok /\ h \in ThreadHandles THEN OsTid(h) ELSE 0

\* GetProcessId((HANDLE)-1) is the pseudo handle of the calling process
GetProcessId(h, ok) ==
    IF ~ok THEN 0
    ELSE IF h \in ProcessHandles THEN OsPid(h)
    ELSE IF h = INVALID_HANDLE_VALUE THEN CurrentPid
    ELSE 0

\* GetExitCodeThread / GetExitCodeProcess: nullopt stands for a FALSE return
GetExitCode(k, h, ok) ==
    IF ok /\ h \in RealHandles
    THEN (IF k.exit[h] = Running THEN STILL_ACTIVE ELSE k.exit[h])
    ELSE nullopt

\* WaitForSingleObject(h, ms) can return now (with the given status)
WaitResult(k, h, ms, ok) ==
    IF ~ok \/ h \notin RealHandles THEN WAIT_FAILED
    ELSE IF k.exit[h] # Running THEN WAIT_OBJECT_0
    ELSE WAIT_TIMEOUT

\* WaitForSingleObject(h, ms) blocks: the target runs and the wait is unbounded
WaitBlocks(k, h, ms, ok) ==
    ok /\ h \in RealHandles /\ k.exit[h] = Running /\ ms = INFINITE

WaitForSingleObject(k, h, ms, ok) == Call(k, "WaitForSingleObject", h, ms, WaitResult(k, h, ms, ok))

\* ================================================================= Thread
ZeroThread == [hThread_ |-> NULL, tid_ |-> 0]

Thread_set_zero_(t) == ZeroThread

\* an is_valid_handle that knows one sentinel only
Thread_is_valid_handle_null_only(h) == h # NULL

Thread_is_valid_handle(h) == h # NULL /\ h # INVALID_HANDLE_VALUE

\* a close_handle_ that passes every handle, sentinels included, to CloseHandle
Thread_close_handle_unchecked(k, h) == CloseHandle(k, h)

Thread_close_handle_(k, h) == IF Thread_is_valid_handle(h) THEN CloseHandle(k, h) ELSE k

Thread_reset(k, t) == [k |-> Thread_close_handle_(k, t.hThread_), t |-> Thread_set_zero_(t)]

\* an initialize_ that keeps a handle whose id it could not resolve
Thread_initialize_no_rollback(k, t, ok) ==
    IF Thread_is_valid_handle(t.hThread_)
    THEN LET ask == t.tid_ = 0
         IN [k |-> IF ask THEN Call(k, "GetThreadId", t.hThread_, 0, GetThreadId(t.hThread_, ok)) ELSE k,
             t |-> IF ask THEN [t EXCEPT !.tid_ = GetThreadId(t.hThread_, ok)] ELSE t]
    ELSE [k |-> k, t |-> ZeroThread]

\* an initialize_ that forgets the handle whose id it could not resolve, without closing it
Thread_initialize_leaks(k, t, ok) ==
    IF Thread_is_valid_handle(t.hThread_)
    THEN LET ask == t.tid_ = 0
             k1 == IF ask THEN Call(k, "GetThreadId", t.hThread_, 0, GetThreadId(t.hThread_, ok)) ELSE k
             t1 == IF ask THEN [t EXCEPT !.tid_ = GetThreadId(t.hThread_, ok)] ELSE t
         IN IF t1.tid_ = 0 THEN [k |-> k1, t |-> ZeroThread] ELSE [k |-> k1, t |-> t1]
    ELSE [k |-> k, t |-> ZeroThread]

Thread_initialize_(k, t, ok) ==
    IF Thread_is_valid_handle(t.hThread_)
    THEN LET ask == t.tid_ = 0
             k1 == IF ask THEN Call(k, "GetThreadId", t.hThread_, 0, GetThreadId(t.hThread_, ok)) ELSE k
             t1 == IF ask THEN [t EXCEPT !.tid_ = GetThreadId(t.hThread_, ok)] ELSE t
         IN IF t1.tid_ = 0 THEN Thread_reset(k1, t1) ELSE [k |-> k1, t |-> t1]
    ELSE [k |-> k, t |-> Thread_set_zero_(t)]

Thread_valid(t) == Thread_is_valid_handle(t.hThread_)
\* a joinable that is never true
Thread_joinable_never(t) == FALSE

Thread_joinable(t) == Thread_valid(t)
Thread_operator_bool(t) == Thread_valid(t)
Thread_get_id(t) == t.tid_
Thread_handle(t) == t.hThread_


\* kernel calls that act on the thread behind a handle
TerminateTarget(k, h, code, ok) ==
    IF ok /\ h \in RealHandles /\ k.exit[h] = Running THEN [k EXCEPT !.exit[h] = code] ELSE k

SuspendThread(k, h, ok) ==
    IF ok /\ h \in ThreadHandles /\ k.susp[h] < MaxSuspend
    THEN Call([k EXCEPT !.susp[h] = @ + 1], "SuspendThread", h, 0, k.susp[h])
    ELSE Call(k, "SuspendThread", h, 0, ERROR_STATUS)

ResumeThread(k, h, ok) ==
    IF ok /\ h \in ThreadHandles
    THEN Call([k EXCEPT !.susp[h] = IF @ > 0 THEN @ - 1 ELSE 0], "ResumeThread", h, 0, k.susp[h])
    ELSE Call(k, "ResumeThread", h, 0, ERROR_STATUS)

LastRes(k) == k.calls[Len(k.calls)].res

\* a move that forgets to empty its source
Thread_move_keeps_source(t, other) == [this |-> other, other |-> other]

\* a move that transfers the handle and forgets the id
Thread_move_drops_id(t, other) == [this |-> [other EXCEPT !.tid_ = 0], other |-> ZeroThread]

Thread_move(t, other) == [this |-> other, other |-> Thread_set_zero_(other)]

\* a release that closes the handle it returns
Thread_release_closes(k, t) ==
    [k |-> Thread_close_handle_(k, t.hThread_), t |-> ZeroThread, ret |-> t.hThread_]

Thread_release(k, t) ==
    [k |-> Return(k, t.hThread_), t |-> Thread_set_zero_(t), ret |-> t.hThread_]

\* a reset(h, id) that ignores the id it is given and asks the kernel
Thread_reset_h_requeries(k, t, thread_handle, thread_id, ok) ==
    LET r == Thread_reset(k, t)
    IN Thread_initialize_(Hand(r.k, thread_handle), [hThread_ |-> thread_handle, tid_ |-> 0], ok)

Thread_reset_h(k, t, thread_handle, thread_id, ok) ==
    LET r == Thread_reset(k, t)
    IN Thread_initialize_(Hand(r.k, thread_handle), [hThread_ |-> thread_handle, tid_ |-> thread_id], ok)

\* a swap that exchanges the handles and leaves the ids
Thread_swap_handles_only(t, other_) ==
    [this |-> [t EXCEPT !.hThread_ = other_.hThread_], other |-> [other_ EXCEPT !.hThread_ = t.hThread_]]

Thread_swap(t, other_) == [this |-> other_, other |-> t]

Thread_join(k, t, ok) ==
    IF Thread_valid(t)
    THEN Thread_reset(WaitForSingleObject(k, t.hThread_, INFINITE, ok), t)
    ELSE [k |-> k, t |-> t]

\* a detach that terminates the thread before it lets the handle go
Thread_detach_terminates(k, t) == Thread_reset(TerminateTarget(k, t.hThread_, 28, TRUE), t)

Thread_detach(k, t) == Thread_reset(k, t)

\* a try_exit_code that reports whatever code the probe gives, STILL_ACTIVE included
Thread_try_exit_code_no_sentinel(k, t, ok) ==
    IF ~Thread_valid(t) THEN [k |-> k, ret |-> nullopt]
    ELSE LET exitCode == GetExitCode(k, t.hThread_, ok)
         IN [k |-> Call(k, "GetExitCodeThread", t.hThread_, 0, exitCode), ret |-> exitCode]

Thread_try_exit_code(k, t, ok) ==
    IF ~Thread_valid(t) THEN [k |-> k, ret |-> nullopt]
    ELSE LET exitCode == GetExitCode(k, t.hThread_, ok)
             k1 == Call(k, "GetExitCodeThread", t.hThread_, 0, exitCode)
         IN IF exitCode # nullopt
            THEN (IF exitCode = STILL_ACTIVE THEN [k |-> k1, ret |-> nullopt]
                                             ELSE [k |-> k1, ret |-> exitCode])
            ELSE [k |-> k1, ret |-> nullopt]

\* an is_running that is "try_exit_code() has no value"
Thread_is_running_by_exit_code(k, t, ok) ==
    LET r == Thread_try_exit_code(k, t, ok)
    IN [k |-> r.k, ret |-> BoolRet(r.ret = nullopt)]

Thread_is_running(k, t, ok) ==
    IF ~Thread_valid(t) THEN [k |-> k, ret |-> FALSE_]
    ELSE LET exitCode == GetExitCode(k, t.hThread_, ok)
             k1 == Call(k, "GetExitCodeThread", t.hThread_, 0, exitCode)
         IN IF exitCode # nullopt
            THEN [k |-> k1, ret |-> BoolRet(exitCode = STILL_ACTIVE)]
            ELSE [k |-> k1, ret |-> FALSE_]

\* a terminate that reports success whatever TerminateThread returns
Thread_terminate_ignores_result(k, t, exit_code, ok) ==
    IF Thread_valid(t)
    THEN [k |-> Call(TerminateTarget(k, t.hThread_, exit_code, ok), "TerminateThread", t.hThread_, exit_code, BoolRet(ok)),
          ret |-> TRUE_]
    ELSE [k |-> k, ret |-> FALSE_]

Thread_terminate(k, t, exit_code, ok) ==
    IF Thread_valid(t)
    THEN [k |-> Call(TerminateTarget(k, t.hThread_, exit_code, ok), "TerminateThread", t.hThread_, exit_code, BoolRet(ok)),
          ret |-> BoolRet(BoolRet(ok) # 0)]
    ELSE [k |-> k, ret |-> FALSE_]

\* a suspend that does not check valid() first
Thread_suspend_unchecked(k, t, ok) ==
    LET k1 == SuspendThread(k, t.hThread_, ok)
    IN [k |-> k1, ret |-> BoolRet(LastRes(k1) # ERROR_STATUS)]

Thread_suspend(k, t, ok) ==
    IF Thread_valid(t)
    THEN LET k1 == SuspendThread(k, t.hThread_, ok)
         IN [k |-> k1, ret |-> BoolRet(LastRes(k1) # ERROR_STATUS)]
    ELSE [k |-> k, ret |-> FALSE_]

Thread_resume(k, t, ok) ==
    IF Thread_valid(t)
    THEN LET k1 == ResumeThread(k, t.hThread_, ok)
         IN [k |-> k1, ret |-> BoolRet(LastRes(k1) # ERROR_STATUS)]
    ELSE [k |-> k, ret |-> FALSE_]

\* a wait that closes the handle once the wait is over
Thread_wait_closes(k, t, ok) ==
    IF Thread_valid(t)
    THEN LET k1 == WaitForSingleObject(k, t.hThread_, INFINITE, ok)
         IN [k |-> Thread_close_handle_(k1, t.hThread_), ret |-> k1.calls[Len(k1.calls)].res]
    ELSE [k |-> k, ret |-> failed]

\* a wait that reports signaled whatever WaitForSingleObject returns
Thread_wait_always_signaled(k, t, ok) ==
    IF Thread_valid(t)
    THEN [k |-> WaitForSingleObject(k, t.hThread_, INFINITE, ok), ret |-> signaled]
    ELSE [k |-> k, ret |-> failed]

Thread_wait(k, t, ok) ==
    IF Thread_valid(t)
    THEN LET k1 == WaitForSingleObject(k, t.hThread_, INFINITE, ok)
         IN [k |-> k1, ret |-> LastRes(k1)]
    ELSE [k |-> k, ret |-> failed]

\* the DWORD Thread::wait_for passes to WaitForSingleObject
Thread_wait_for_ms(ms_count) ==
    IF ms_count >= INFINITE THEN INFINITE - 1 ELSE ToDWORD(ms_count)

Thread_wait_for(k, t, ms_count, ok) ==
    IF Thread_valid(t)
    THEN LET k1 == WaitForSingleObject(k, t.hThread_, Thread_wait_for_ms(ms_count), ok)
         IN [k |-> k1, ret |-> LastRes(k1)]
    ELSE [k |-> k, ret |-> failed]

Thread_set_priority(k, t, priority, ok) ==
    IF Thread_valid(t)
    THEN [k |-> Call(k, "SetThreadPriority", t.hThread_, priority, BoolRet(ok)), ret |-> BoolRet(BoolRet(ok) # 0)]
    ELSE [k |-> k, ret |-> FALSE_]

\* p: what GetThreadPriority returns
Thread_get_priority(k, t, p) ==
    IF Thread_valid(t)
    THEN [k |-> Call(k, "GetThreadPriority", t.hThread_, 0, p),
          ret |-> IF p # THREAD_PRIORITY_ERROR_RETURN THEN ToDWORD(p) ELSE 0]
    ELSE [k |-> k, ret |-> 0]

\* prev: what SetThreadAffinityMask returns
Thread_set_affinity(k, t, mask, prev) ==
    IF Thread_valid(t)
    THEN [k |-> Call(k, "SetThreadAffinityMask", t.hThread_, mask, prev), ret |-> prev]
    ELSE [k |-> k, ret |-> 0]

\* a create that returns an empty Thread and forgets the handle it was given
Thread_create_forgets_handle(k, h, lpThreadId, ok) ==
    [k |-> Call(k, "CreateThread", h, 0, IF h # NULL THEN OsTid(h) ELSE 0),
     t |-> ZeroThread,
     ret |-> IF lpThreadId /\ h # NULL THEN OsTid(h) ELSE 0]

\* h: what CreateThread returns; the result is the Thread returned by value
Thread_create(k, h, lpThreadId, ok) ==
    LET tid == IF h # NULL THEN OsTid(h) ELSE 0
        k1 == Call(k, "CreateThread", h, 0, tid)
    IN IF h # NULL
       THEN LET r == Thread_reset_h(k1, ZeroThread, h, tid, ok)
            IN [k |-> r.k, t |-> r.t, ret |-> IF lpThreadId THEN tid ELSE 0]
       ELSE [k |-> k1, t |-> ZeroThread, ret |-> 0]


\* ================================================================ Process
ZeroProcess == [hProcess_ |-> NULL, hThread_ |-> NULL, pid_ |-> 0, tid_ |-> 0]

Process_set_zero_(p) == ZeroProcess

Process_is_valid_handle(h) == NULL # h /\ INVALID_HANDLE_VALUE # h

Process_close_handle_(k, h) == IF Process_is_valid_handle(h) THEN CloseHandle(k, h) ELSE k

\* a reset that closes the process handle before the thread handle
Process_reset_process_first(k, p) ==
    [k |-> Process_close_handle_(Process_close_handle_(k, p.hProcess_), p.hThread_),
     p |-> ZeroProcess]

Process_reset(k, p) ==
    [k |-> Process_close_handle_(Process_close_handle_(k, p.hThread_), p.hProcess_),
     p |-> Process_set_zero_(p)]

\* an initialize_ that clears the fields on failure without closing the handles
Process_initialize_leaks(k, p, okP, okT) ==
    IF NULL # p.hProcess_ /\ NULL # p.hThread_
    THEN LET pid == GetProcessId(p.hProcess_, okP)
             k1 == Call(k, "GetProcessId", p.hProcess_, 0, pid)
         IN IF INVALID_ID = pid THEN [k |-> k1, p |-> ZeroProcess]
            ELSE LET tid == GetThreadId(p.hThread_, okT)
                     k2 == Call(k1, "GetThreadId", p.hThread_, 0, tid)
                 IN IF INVALID_ID = tid THEN [k |-> k2, p |-> ZeroProcess]
                    ELSE [k |-> k2, p |-> [p EXCEPT !.pid_ = pid, !.tid_ = tid]]
    ELSE [k |-> k, p |-> ZeroProcess]

\* an initialize_ that asks the kernel only for the ids the caller left at 0
Process_initialize_trusts_ids(k, p, okP, okT) ==
    IF NULL # p.hProcess_ /\ NULL # p.hThread_
    THEN LET pid == IF p.pid_ = 0 THEN GetProcessId(p.hProcess_, okP) ELSE p.pid_
             k1 == Call(k, "GetProcessId", p.hProcess_, 0, pid)
             p1 == [p EXCEPT !.pid_ = pid]
         IN IF INVALID_ID = p1.pid_ THEN Process_reset(k1, p1)
            ELSE LET tid == IF p.tid_ = 0 THEN GetThreadId(p1.hThread_, okT) ELSE p.tid_
                     k2 == Call(k1, "GetThreadId", p1.hThread_, 0, tid)
                     p2 == [p1 EXCEPT !.tid_ = tid]
                 IN IF INVALID_ID = p2.tid_ THEN Process_reset(k2, p2) ELSE [k |-> k2, p |-> p2]
    ELSE Process_reset(k, p)

\* okP, okT: whether GetProcessId and GetThreadId succeed
Process_initialize_(k, p, okP, okT) ==
    IF NULL # p.hProcess_ /\ NULL # p.hThread_
    THEN LET pid == GetProcessId(p.hProcess_, okP)
             k1 == Call(k, "GetProcessId", p.hProcess_, 0, pid)
             p1 == [p EXCEPT !.pid_ = pid]
         IN IF INVALID_ID = p1.pid_ THEN Process_reset(k1, p1)
            ELSE LET tid == GetThreadId(p1.hThread_, okT)
                     k2 == Call(k1, "GetThreadId", p1.hThread_, 0, tid)
                     p2 == [p1 EXCEPT !.tid_ = tid]
                 IN IF INVALID_ID = p2.tid_ THEN Process_reset(k2, p2) ELSE [k |-> k2, p |-> p2]
    ELSE Process_reset(k, p)

\* Process(HANDLE, HANDLE, DWORD, DWORD) and Process(const PROCESS_INFORMATION&)
Process_ctor(k, Process_handle, thread_handle, pid, tid, okP, okT) ==
    Process_initialize_(Hand(Hand(k, Process_handle), thread_handle),
                        [hProcess_ |-> Process_handle, hThread_ |-> thread_handle, pid_ |-> pid, tid_ |-> tid],
                        okP, okT)

\* a move that forgets to empty its source
Process_move_keeps_source(p, other_) == [this |-> other_, other |-> other_]

Process_move(p, other_) == [this |-> other_, other |-> Process_set_zero_(other_)]

Process_valid(p) == Process_is_valid_handle(p.hProcess_)
Process_operator_bool(p) == Process_valid(p)
Process_handle(p) == p.hProcess_
Process_thread_handle(p) == p.hThread_
Process_pid(p) == p.pid_
Process_tid(p) == p.tid_

\* ret is the pair {hProcess_, hThread_}
Process_release(k, p) ==
    [k |-> Return(Return(k, p.hProcess_), p.hThread_), p |-> Process_set_zero_(p),
     ret |-> <<p.hProcess_, p.hThread_>>]

Process_reset_h(k, p, process_handle, thread_handle, pid, tid, okP, okT) ==
    LET r == Process_reset(k, p)
    IN Process_ctor(r.k, process_handle, thread_handle, pid, tid, okP, okT)

Process_swap(p, other_) == [this |-> other_, other |-> p]

Process_wait(k, p, ok) ==
    IF Process_valid(p)
    THEN LET k1 == WaitForSingleObject(k, p.hProcess_, INFINITE, ok)
         IN [k |-> k1, ret |-> LastRes(k1)]
    ELSE [k |-> k, ret |-> failed]

\* the DWORD Process::wait_for passes to WaitForSingleObject
Process_wait_for_ms(ms_count) ==
    LET ms == ToDWORD(ms_count)
    IN IF MAX_WAIT_TIMEOUT < ms THEN MAX_WAIT_TIMEOUT ELSE ms

Process_wait_for(k, p, ms_count, ok) ==
    IF Process_valid(p)
    THEN LET k1 == WaitForSingleObject(k, p.hProcess_, Process_wait_for_ms(ms_count), ok)
         IN [k |-> k1, ret |-> LastRes(k1)]
    ELSE [k |-> k, ret |-> failed]

Process_try_exit_code(k, p, ok) ==
    IF Process_valid(p)
    THEN LET exitCode == GetExitCode(k, p.hProcess_, ok)
             k1 == Call(k, "GetExitCodeProcess", p.hProcess_, 0, exitCode)
         IN IF exitCode # nullopt /\ STILL_ACTIVE # exitCode
            THEN [k |-> k1, ret |-> exitCode]
            ELSE [k |-> k1, ret |-> nullopt]
    ELSE [k |-> k, ret |-> nullopt]

Process_is_running(k, p, ok) ==
    LET r == Process_try_exit_code(k, p, ok)
    IN [k |-> r.k, ret |-> BoolRet(~(r.ret # nullopt))]

Process_terminate(k, p, exit_code, ok) ==
    IF Process_valid(p)
    THEN [k |-> Call(TerminateTarget(k, p.hProcess_, exit_code, ok), "TerminateProcess", p.hProcess_, exit_code, BoolRet(ok)),
          ret |-> BoolRet(ok)]
    ELSE [k |-> k, ret |-> FALSE_]

Process_set_priority_class(k, p, priority_class, ok) ==
    IF Process_valid(p)
    THEN [k |-> Call(k, "SetPriorityClass", p.hProcess_, priority_class, BoolRet(ok)), ret |-> BoolRet(ok)]
    ELSE [k |-> k, ret |-> FALSE_]

\* c: what GetPriorityClass returns
Process_get_priority_class(k, p, c) ==
    IF Process_valid(p)
    THEN [k |-> Call(k, "GetPriorityClass", p.hProcess_, 0, c), ret |-> c]
    ELSE [k |-> k, ret |-> 0]

\* a suspend that acts on the process handle
Process_suspend_process_handle(k, p, ok) ==
    IF Process_valid(p)
    THEN LET k1 == SuspendThread(k, p.hProcess_, ok)
         IN [k |-> k1, ret |-> BoolRet(ERROR_STATUS # LastRes(k1))]
    ELSE [k |-> k, ret |-> FALSE_]

Process_suspend(k, p, ok) ==
    IF Process_valid(p)
    THEN LET k1 == SuspendThread(k, p.hThread_, ok)
         IN [k |-> k1, ret |-> BoolRet(ERROR_STATUS # LastRes(k1))]
    ELSE [k |-> k, ret |-> FALSE_]

Process_resume(k, p, ok) ==
    IF Process_valid(p)
    THEN LET k1 == ResumeThread(k, p.hThread_, ok)
         IN [k |-> k1, ret |-> BoolRet(ERROR_STATUS # LastRes(k1))]
    ELSE [k |-> k, ret |-> FALSE_]

\* a create that adopts the creation record whether or not CreateProcessW succeeded
Process_create_adopts_on_failure(k, created, okP, okT) ==
    LET hp == Fresh(k, ProcessHandles)
        ht == Fresh(k, ThreadHandles)
        k1 == Call(k, "CreateProcessW", IF created THEN hp ELSE NULL, 0, BoolRet(created))
    IN Process_ctor(k1, hp, ht, IF hp = NULL THEN 0 ELSE OsPid(hp), IF ht = NULL THEN 0 ELSE OsTid(ht), okP, okT)

\* created: CreateProcessW succeeds and fills pi with a new handle pair
Process_create(k, created, okP, okT) ==
    LET hp == Fresh(k, ProcessHandles)
        ht == Fresh(k, ThreadHandles)
        k1 == Call(k, "CreateProcessW", IF created THEN hp ELSE NULL, 0, BoolRet(created))
    IN IF created
       THEN Process_ctor(k1, hp, ht, OsPid(hp), OsTid(ht), okP, okT)
       ELSE [k |-> k1, p |-> ZeroProcess]


\* =================================================================== File
\* The file the tests work on (temp_file_path_) and the handles CreateFile issues
\* for it. owner[h]: "free" never issued, "open", "closed" after CloseHandle.
\* pos[h]: the file pointer of handle h. closes[h]: the CloseHandle(h) calls made
\* (capped at 2). data: the bytes of the file.
MaxFileSize == 3         \* bytes in the longest file
FileHandles == {21, 22}
Bytes == {65, 66}
Buffers == UNION {[1 .. n -> Bytes] : n \in 0 .. 2}
Dispositions == {"CREATE_ALWAYS", "OPEN_EXISTING"}
INVALID_SET_FILE_POINTER == DWORD_MOD - 1
INVALID_FILE_SIZE == DWORD_MOD - 1
\* (LONG)x of a DWORD x
ToLONG(x) == IF x >= DWORD_MOD \div 2 THEN x - DWORD_MOD ELSE x

IsOpenHandle(d, h) == h \in FileHandles /\ d.owner[h] = "open"

FreshFile(d) ==
    IF \E h \in FileHandles : d.owner[h] = "free"
    THEN CHOOSE h \in FileHandles : d.owner[h] = "free" /\ \A g \in FileHandles : d.owner[g] = "free" => h <= g
    ELSE NULL

\* ok: the platform carries the call out (the file can be opened, the handle has
\* the access right, the disk is not full)
CreateFile(d, dwCreationDisposition, ok) ==
    LET h == FreshFile(d)
    IN IF ok /\ h # NULL /\ (dwCreationDisposition = "CREATE_ALWAYS" \/ d.exists)
       THEN Call([d EXCEPT !.owner[h] = "open", !.pos[h] = 0, !.exists = TRUE,
                           !.data = IF dwCreationDisposition = "CREATE_ALWAYS" THEN <<>> ELSE @],
                 "CreateFile", h, dwCreationDisposition, h)
       ELSE Call(d, "CreateFile", INVALID_HANDLE_VALUE, dwCreationDisposition, INVALID_HANDLE_VALUE)

CloseFileHandle(d, h) ==
    IF IsOpenHandle(d, h)
    THEN Call([d EXCEPT !.owner[h] = "closed", !.closes[h] = @ + 1], "CloseHandle", h, 0, TRUE_)
    ELSE Call(IF h \in FileHandles THEN [d EXCEPT !.closes[h] = IF @ < 2 THEN @ + 1 ELSE @] ELSE d,
              "CloseHandle", h, 0, FALSE_)

\* the bytes of the file after nNumberOfBytesToWrite bytes of lpBuffer were written at p
Written(data, p, lpBuffer, nNumberOfBytesToWrite) ==
    LET end == p + nNumberOfBytesToWrite
        len == IF Len(data) > end THEN Len(data) ELSE end
    IN IF nNumberOfBytesToWrite = 0 THEN data
       ELSE [i \in 1 .. len |->
                IF i > p /\ i <= end THEN lpBuffer[i - p]
                ELSE IF i <= Len(data) THEN data[i] ELSE 0]

\* res.ok is the BOOL returned, res.n the byte count stored through the fourth
\* argument, res.buf the bytes stored into the caller's buffer
WriteFile(d, h, lpBuffer, nNumberOfBytesToWrite, ok) ==
    IF ok /\ IsOpenHandle(d, h)
    THEN Call([d EXCEPT !.data = Written(@, d.pos[h], lpBuffer, nNumberOfBytesToWrite),
                        !.pos[h] = @ + nNumberOfBytesToWrite],
              "WriteFile", h, nNumberOfBytesToWrite,
              [ok |-> TRUE_, n |-> nNumberOfBytesToWrite, buf |-> <<>>])
    ELSE Call(d, "WriteFile", h, nNumberOfBytesToWrite, [ok |-> FALSE_, n |-> 0, buf |-> <<>>])

\* a read at or after the end of the file succeeds with 0 bytes
ReadFile(d, h, nNumberOfBytesToRead, ok) ==
    IF ok /\ IsOpenHandle(d, h)
    THEN LET p == d.pos[h]
             left == IF Len(d.data) > p THEN Len(d.data) - p ELSE 0
             n == IF nNumberOfBytesToRead < left THEN nNumberOfBytesToRead ELSE left
         IN Call([d EXCEPT !.pos[h] = p + n], "ReadFile", h, nNumberOfBytesToRead,
                 [ok |-> TRUE_, n |-> n, buf |-> SubSeq(d.data, p + 1, p + n)])
    ELSE Call(d, "ReadFile", h, nNumberOfBytesToRead, [ok |-> FALSE_, n |-> 0, buf |-> <<>>])

\* SetFilePointer with a null lpDistanceToMoveHigh: the distance is a signed LONG,
\* and the call fails when the new pointer is negative or does not fit a DWORD
SetFilePointer(d, h, lDistanceToMove, dwMoveMethod, ok) ==
    IF ok /\ IsOpenHandle(d, h)
    THEN LET new == (IF dwMoveMethod = "FILE_BEGIN" THEN 0 ELSE d.pos[h]) + ToLONG(lDistanceToMove)
         IN IF new >= 0 /\ new < INVALID_SET_FILE_POINTER
            THEN Call([d EXCEPT !.pos[h] = new], "SetFilePointer", h, <<lDistanceToMove, dwMoveMethod>>, new)
            ELSE Call(d, "SetFilePointer", h, <<lDistanceToMove, dwMoveMethod>>, INVALID_SET_FILE_POINTER)
    ELSE Call(d, "SetFilePointer", h, <<lDistanceToMove, dwMoveMethod>>, INVALID_SET_FILE_POINTER)

GetFileSize(d, h, ok) ==
    IF ok /\ IsOpenHandle(d, h)
    THEN Call(d, "GetFileSize", h, 0, ToDWORD(Len(d.data)))
    ELSE Call(d, "GetFileSize", h, 0, INVALID_FILE_SIZE)

\* ---------------------------------------------------------- File, the class
ZeroFile == [hFile_ |-> INVALID_HANDLE_VALUE]

File_set_zero_(f) == [f EXCEPT !.hFile_ = INVALID_HANDLE_VALUE]

File_ctor_h(h) == [hFile_ |-> h]

File_move(f, other_) == [this |-> [hFile_ |-> other_.hFile_], other |-> File_set_zero_(other_)]

\* an is_opened that accepts the null handle
File_is_opened_null_too(f) == f.hFile_ # INVALID_HANDLE_VALUE

File_is_opened(f) == f.hFile_ # INVALID_HANDLE_VALUE /\ f.hFile_ # NULL

File_operator_bool(f) == File_is_opened(f)

\* a close that keeps the handle it has closed
File_close_keeps_handle(d, f) ==
    IF File_is_opened(f)
    THEN LET d1 == CloseFileHandle(d, f.hFile_)
         IN [d |-> d1, f |-> f, ret |-> LastRes(d1)]
    ELSE [d |-> d, f |-> f, ret |-> FALSE_]

File_close(d, f) ==
    IF File_is_opened(f)
    THEN LET d1 == CloseFileHandle(d, f.hFile_)
         IN [d |-> d1, f |-> File_set_zero_(f), ret |-> LastRes(d1)]
    ELSE [d |-> d, f |-> f, ret |-> FALSE_]

File_dtor(d, f) ==
    LET r == File_close(d, f)
    IN [d |-> r.d, f |-> File_set_zero_(r.f)]

File_write(d, f, buf, size, ok) ==
    LET d1 == WriteFile(d, f.hFile_, buf, size, ok)
        w == LastRes(d1)
    IN [d |-> d1, ret |-> BoolRet(w.ok # 0 /\ w.n > 0)]

\* buf: the bytes the call stored at the start of the caller's buffer
File_read(d, f, size, ok) ==
    LET d1 == ReadFile(d, f.hFile_, size, ok)
        r == LastRes(d1)
    IN [d |-> d1, ret |-> BoolRet(r.ok # 0 /\ r.n > 0), buf |-> r.buf]

\* a getCh that returns the byte before the one it has read
File_getCh_stale(d, f, ok) ==
    LET r == File_read(d, f, 1, ok)
        h == f.hFile_
    IN [d |-> r.d,
        ret |-> IF r.ret = TRUE_
                THEN (IF d.pos[h] > 0 THEN d.data[d.pos[h]] ELSE r.buf[1])
                ELSE nullopt]

File_getCh(d, f, ok) ==
    LET r == File_read(d, f, 1, ok)
    IN [d |-> r.d, ret |-> IF r.ret = TRUE_ THEN r.buf[1] ELSE nullopt]

File_open(d, dwCreationDisposition, ok) ==
    LET d1 == CreateFile(d, dwCreationDisposition, ok)
    IN [d |-> d1, f |-> File_ctor_h(LastRes(d1))]

File_getFilePointer(d, f, ok) ==
    IF File_is_opened(f)
    THEN LET d1 == SetFilePointer(d, f.hFile_, 0, "FILE_CURRENT", ok)
             dwLow == LastRes(d1)
         IN [d |-> d1, ret |-> IF dwLow = INVALID_SET_FILE_POINTER THEN nullopt ELSE dwLow]
    ELSE [d |-> d, ret |-> nullopt]

File_setFilePointer(d, f, p, ok) ==
    IF File_is_opened(f)
    THEN LET d1 == SetFilePointer(d, f.hFile_, p, "FILE_BEGIN", ok)
             dwLow == LastRes(d1)
         IN [d |-> d1, ret |-> BoolRet(dwLow # INVALID_SET_FILE_POINTER)]
    ELSE [d |-> d, ret |-> FALSE_]

File_getFileSize(d, f, ok) ==
    IF File_is_opened(f)
    THEN LET d1 == GetFileSize(d, f.hFile_, ok)
             dwLow == LastRes(d1)
         IN [d |-> d1, ret |-> IF dwLow = INVALID_FILE_SIZE THEN nullopt ELSE dwLow]
    ELSE [d |-> d, ret |-> nullopt]

Disk0(exists) ==
    [exists |-> exists, data |-> <<>>,
     owner |-> [h \in FileHandles |-> "free"],
     pos |-> [h \in FileHandles |-> 0],
     closes |-> [h \in FileHandles |-> 0],
     calls |-> <<>>]

\* =============================================== the demonstration program
\* main.cpp: _tmain reads n and arr, starts the workers min_max and average and
\* joins them. A statement is named by its line: pc[t] = "L20" is thread t before
\* line 20; "idle" is a worker that was not started, "done" a thread that returned.
MaxN == 5                \* elements in the longest array
Values == {-1, 0, 2}                       \* the values of the elements of arr
Workers == {"min_max", "average"}
Threads == {"main"} \cup Workers
th_minmax == "a"
th_average == "b"

\* a / b of two int, b > 0: the quotient is truncated towards zero
IntDiv(a, b) == IF a >= 0 THEN a \div b ELSE -((-a) \div b)

\* arr[i], i counted from 0
At(m, i) == m.arr[i + 1]

\* the statement at line at of min_max: m the globals, l its locals [i, a, b]
min_max(m, l, at) ==
    CASE at = "L13" -> [m |-> m, l |-> [l EXCEPT !.i = 0], at |-> "L14"]
      [] at = "L14" -> [m |-> m, l |-> l, at |-> IF l.i < m.n - 2 THEN "L17" ELSE "L34"]
      [] at = "L17" -> [m |-> m, l |-> [l EXCEPT !.a = At(m, l.i)], at |-> "L18"]
      [] at = "L18" -> [m |-> m, l |-> [l EXCEPT !.b = At(m, l.i + 1)], at |-> "L19"]
      [] at = "L19" -> [m |-> m, l |-> l, at |-> IF l.a < l.b THEN "L20" ELSE "L26"]
      [] at = "L20" -> [m |-> m, l |-> l, at |-> IF At(m, m.min_el) > l.a THEN "L21" ELSE "L22"]
      [] at = "L21" -> [m |-> [m EXCEPT !.min_el = l.i], l |-> l, at |-> "L22"]
      [] at = "L22" -> [m |-> m, l |-> l, at |-> IF At(m, m.max_el) < l.b THEN "L23" ELSE "L32"]
      [] at = "L23" -> [m |-> [m EXCEPT !.max_el = l.i + 1], l |-> l, at |-> "L32"]
      [] at = "L26" -> [m |-> m, l |-> l, at |-> IF At(m, m.min_el) > l.b THEN "L27" ELSE "L28"]
      [] at = "L27" -> [m |-> [m EXCEPT !.min_el = l.i + 1], l |-> l, at |-> "L28"]
      [] at = "L28" -> [m |-> m, l |-> l, at |-> IF At(m, m.max_el) < l.a THEN "L29" ELSE "L32"]
      [] at = "L29" -> [m |-> [m EXCEPT !.max_el = l.i], l |-> l, at |-> "L32"]
      [] at = "L32" -> [m |-> m, l |-> [l EXCEPT !.i = @ + 2], at |-> "L14"]
      [] at = "L34" -> [m |-> m, l |-> l, at |-> IF l.i = m.n - 1 THEN "L36" ELSE "L42"]
      [] at = "L36" -> [m |-> m, l |-> l, at |-> IF At(m, m.min_el) > At(m, l.i) THEN "L37" ELSE "L38"]
      [] at = "L37" -> [m |-> [m EXCEPT !.min_el = l.i], l |-> l, at |-> "L52"]
      [] at = "L38" -> [m |-> m, l |-> l, at |-> IF At(m, m.max_el) < At(m, l.i) THEN "L39" ELSE "L52"]
      [] at = "L39" -> [m |-> [m EXCEPT !.max_el = l.i], l |-> l, at |-> "L52"]
      [] at = "L42" -> [m |-> m, l |-> [l EXCEPT !.a = At(m, l.i)], at |-> "L43"]
      [] at = "L43" -> [m |-> m, l |-> [l EXCEPT !.b = At(m, l.i + 1)], at |-> "L44"]
      [] at = "L44" -> [m |-> m, l |-> l, at |-> IF At(m, m.min_el) > l.a THEN "L45" ELSE "L46"]
      [] at = "L45" -> [m |-> [m EXCEPT !.min_el = l.i], l |-> l, at |-> "L46"]
      [] at = "L46" -> [m |-> m, l |-> l, at |-> IF At(m, m.max_el) < l.b THEN "L47" ELSE "L52"]
      [] at = "L47" -> [m |-> [m EXCEPT !.max_el = l.i + 1], l |-> l, at |-> "L52"]
      [] at = "L52" -> [m |-> m, l |-> l, at |-> "done"]

\* the statement at line at of average: l its locals [sum, i]
average(m, l, at) ==
    CASE at = "L57" -> [m |-> m, l |-> [l EXCEPT !.sum = 0, !.i = 0], at |-> "L58"]
      [] at = "L58" -> [m |-> m, l |-> l, at |-> IF l.i < m.n THEN "L60" ELSE "L62"]
      [] at = "L60" -> [m |-> m, l |-> [l EXCEPT !.sum = @ + At(m, l.i), !.i = @ + 1], at |-> "L58"]
      [] at = "L62" -> [m |-> [m EXCEPT !.av = IntDiv(l.sum, m.n)], l |-> l, at |-> "L64"]
      [] at = "L64" -> [m |-> m, l |-> l, at |-> "done"]

\* the globals a thread reads and writes in the statement it is at
Reads(t, at) ==
    CASE t = "min_max" /\ at \in {"L14", "L34"} -> {"n"}
      [] t = "min_max" /\ at \in {"L17", "L18", "L42", "L43"} -> {"arr"}
      [] t = "min_max" /\ at \in {"L20", "L26", "L44"} -> {"min_el", "arr"}
      [] t = "min_max" /\ at \in {"L22", "L28", "L46"} -> {"max_el", "arr"}
      [] t = "min_max" /\ at = "L36" -> {"min_el", "arr"}
      [] t = "min_max" /\ at = "L38" -> {"max_el", "arr"}
      [] t = "average" /\ at \in {"L58", "L62"} -> {"n"}
      [] t = "average" /\ at = "L60" -> {"arr"}
      [] t = "main" /\ at = "L93" -> {"arr", "min_el", "max_el", "av"}
      [] t = "main" /\ at = "L103" -> {"min_el", "max_el", "av"}
      [] OTHER -> {}

Writes(t, at) ==
    CASE t = "min_max" /\ at \in {"L21", "L27", "L37", "L45"} -> {"min_el"}
      [] t = "min_max" /\ at \in {"L23", "L29", "L39", "L47"} -> {"max_el"}
      [] t = "average" /\ at = "L62" -> {"av"}
      [] t = "main" /\ at = "L103" -> {"arr"}
      [] OTHER -> {}

\* ================================================================ actions
Init ==
    /\ fixture \in {"ThreadTest", "ProcessTest"}
    /\ alive = {}
    /\ thread = [o \in Objs |-> ZeroThread]
    /\ process = [o \in Objs |-> ZeroProcess]
    /\ kernel = [owner |-> [h \in RealHandles |-> "free"],
                 closes |-> [h \in RealHandles |-> 0],
                 exit |-> [h \in RealHandles |-> Running],
                 susp |-> [h \in ThreadHandles |-> 0],
                 calls |-> <<>>]
    /\ last = <<>>
    /\ ret = <<>>
    /\ file = [o \in Objs |-> ZeroFile]
    /\ disk = Disk0(FALSE)
    /\ mem = [n |-> 0, arr |-> <<>>, min_el |-> 0, max_el |-> 0, av |-> 0]
    /\ pc = [t \in Threads |-> "idle"]
    /\ loc = [t \in Workers |-> [i |-> 0, a |-> 0, b |-> 0, sum |-> 0]]

\* the program is between two calls and exercises the given class
Calling(f) == fixture = f /\ last = <<>>
InThread(o) == Calling("ThreadTest") /\ o \in alive
InProcess(o) == Calling("ProcessTest") /\ o \in alive

\* the caller has read the result of the last call and goes on
Continue ==
    /\ last # <<>> /\ last[1] # "blocked"
    /\ last' = <<>>
    /\ ret' = <<>>
    /\ kernel' = Begin(Reap(kernel))
    /\ UNCHANGED <<fileVars, mainVars, fixture, alive, thread, process>>

\* a Thread method on object o ends: r.k is the kernel, r.t the object
ThreadDone(name, o, r, v) ==
    /\ kernel' = r.k
    /\ thread' = [thread EXCEPT ![o] = r.t]
    /\ last' = <<name, o>>
    /\ ret' = v
    /\ UNCHANGED <<fileVars, mainVars, fixture, alive, process>>

\* the same, for a method whose arguments args are recorded after its name
ThreadDoneArgs(name, o, args, r, v) ==
    /\ kernel' = r.k
    /\ thread' = [thread EXCEPT ![o] = r.t]
    /\ last' = <<name, o>> \o args
    /\ ret' = v
    /\ UNCHANGED <<fileVars, mainVars, fixture, alive, process>>

\* a const Thread method that clears the members of the object it is called on
ThreadConst_clears(name, o, r) ==
    /\ kernel' = r.k
    /\ thread' = [thread EXCEPT ![o] = ZeroThread]
    /\ last' = <<name, o>>
    /\ ret' = <<r.ret>>
    /\ UNCHANGED <<fileVars, mainVars, fixture, alive, process>>

\* a Thread method that leaves the object alone ends
ThreadConst(name, o, r) ==
    /\ kernel' = r.k
    /\ last' = <<name, o>>
    /\ ret' = <<r.ret>>
    /\ UNCHANGED <<fileVars, mainVars, fixture, alive, process, thread>>

\* a Thread constructor or factory ends: object o now exists
ThreadBorn(name, o, r, v) ==
    /\ kernel' = r.k
    /\ thread' = [thread EXCEPT ![o] = r.t]
    /\ alive' = alive \cup {o}
    /\ last' = <<name, o>>
    /\ ret' = v
    /\ UNCHANGED <<fileVars, mainVars, fixture, process>>

\* a binary Thread method ends: m.this and m.other are the two objects
ThreadBoth(name, o, other, k, m) ==
    /\ kernel' = k
    /\ thread' = [[thread EXCEPT ![o] = m.this] EXCEPT ![other] = m.other]
    /\ last' = <<name, o, other>>
    /\ ret' = <<>>
    /\ UNCHANGED <<fileVars, mainVars, fixture, process>>

ThreadCtor(o) ==
    /\ Calling("ThreadTest") /\ o \notin alive
    /\ ThreadBorn("Thread", o, [k |-> kernel, t |-> ZeroThread], <<>>)

ThreadDtor(o) ==
    /\ InThread(o)
    /\ LET r == Thread_reset(kernel, thread[o])
       IN /\ kernel' = r.k
          /\ thread' = [thread EXCEPT ![o] = r.t]
    /\ alive' = alive \ {o}
    /\ last' = <<"~Thread", o>>
    /\ ret' = <<>>
    /\ UNCHANGED <<fileVars, mainVars, fixture, process>>

ThreadMoveCtor(o, other) ==
    /\ Calling("ThreadTest") /\ o \notin alive /\ other \in alive
    /\ ThreadBoth("Thread(Thread&&)", o, other, kernel, Thread_move(thread[o], thread[other]))
    /\ alive' = alive \cup {o}

\* a move-assignment without the this != &other test
ThreadMoveAssign_no_self_check(o, other) ==
    /\ InThread(o) /\ InThread(other)
    /\ LET r == Thread_reset(kernel, thread[o])
       IN ThreadBoth("operator=", o, other, r.k,
                     Thread_move(r.t, IF o = other THEN r.t ELSE thread[other]))
    /\ alive' = alive

ThreadMoveAssign(o, other) ==
    /\ InThread(o) /\ InThread(other)
    /\ IF o # other
       THEN LET r == Thread_reset(kernel, thread[o])
            IN ThreadBoth("operator=", o, other, r.k, Thread_move(r.t, thread[other]))
       ELSE ThreadBoth("operator=", o, other, kernel, [this |-> thread[o], other |-> thread[o]])
    /\ alive' = alive

ThreadRelease(o) ==
    /\ InThread(o)
    /\ LET r == Thread_release(kernel, thread[o]) IN ThreadDone("release", o, r, <<r.ret>>)

ThreadReset(o) ==
    /\ InThread(o)
    /\ ThreadDone("reset", o, Thread_reset(kernel, thread[o]), <<>>)

ThreadResetH(o, h, id, ok) ==
    /\ InThread(o)
    /\ h \in Offered(kernel, ThreadHandles)
    /\ ThreadDoneArgs("reset(h,id)", o, <<h, id>>, Thread_reset_h(kernel, thread[o], h, id, ok), <<>>)

ThreadSwap(o, other) ==
    /\ InThread(o) /\ InThread(other)
    /\ ThreadBoth("swap", o, other, kernel, Thread_swap(thread[o], thread[other]))
    /\ alive' = alive

ThreadJoin(o, ok) ==
    /\ InThread(o)
    /\ ~(Thread_valid(thread[o]) /\ WaitBlocks(kernel, thread[o].hThread_, INFINITE, ok))
    /\ ThreadDone("join", o, Thread_join(kernel, thread[o], ok), <<>>)

ThreadDetach(o) ==
    /\ InThread(o)
    /\ ThreadDone("detach", o, Thread_detach(kernel, thread[o]), <<>>)

ThreadTryExitCode(o, ok) ==
    InThread(o) /\ ThreadConst("try_exit_code", o, Thread_try_exit_code(kernel, thread[o], ok))

ThreadIsRunning(o, ok) ==
    InThread(o) /\ ThreadConst("is_running", o, Thread_is_running(kernel, thread[o], ok))

ThreadTerminate(o, code, ok) ==
    InThread(o) /\ ThreadConst("terminate", o, Thread_terminate(kernel, thread[o], code, ok))

ThreadSuspend(o, ok) ==
    InThread(o) /\ ThreadConst("suspend", o, Thread_suspend(kernel, thread[o], ok))

ThreadResume(o, ok) ==
    InThread(o) /\ ThreadConst("resume", o, Thread_resume(kernel, thread[o], ok))

ThreadWait(o, ok) ==
    /\ InThread(o)
    /\ ~(Thread_valid(thread[o]) /\ WaitBlocks(kernel, thread[o].hThread_, INFINITE, ok))
    /\ ThreadConst("wait", o, Thread_wait(kernel, thread[o], ok))

ThreadWaitFor(o, ms_count, ok) ==
    /\ InThread(o)
    /\ ~(Thread_valid(thread[o]) /\ WaitBlocks(kernel, thread[o].hThread_, Thread_wait_for_ms(ms_count), ok))
    /\ LET r == Thread_wait_for(kernel, thread[o], ms_count, ok)
       IN kernel' = r.k /\ ret' = <<r.ret>>
    /\ last' = <<"wait_for", o, ms_count>>
    /\ UNCHANGED <<fileVars, mainVars, fixture, alive, process, thread>>

ThreadSetPriority(o, ok) ==
    InThread(o) /\ ThreadConst("set_priority", o, Thread_set_priority(kernel, thread[o], 1, ok))

ThreadGetPriority(o, p) ==
    InThread(o) /\ ThreadConst("get_priority", o, Thread_get_priority(kernel, thread[o], p))

ThreadSetAffinity(o, prev) ==
    InThread(o) /\ ThreadConst("set_affinity", o, Thread_set_affinity(kernel, thread[o], 1, prev))

\* HANDLE h = o.release(); o2.reset(h, id), with the id o held and o2 either o or empty
ThreadReleaseReset(o, o2, ok) ==
    /\ InThread(o) /\ InThread(o2)
    /\ Thread_valid(thread[o])
    /\ o2 = o \/ thread[o2] = ZeroThread
    /\ LET r1 == Thread_release(kernel, thread[o])
           r2 == Thread_reset_h(r1.k, IF o2 = o THEN r1.t ELSE thread[o2], r1.ret, Thread_get_id(thread[o]), ok)
       IN /\ kernel' = r2.k
          /\ thread' = [[thread EXCEPT ![o] = r1.t] EXCEPT ![o2] = r2.t]
    /\ last' = <<"release;reset", o, o2>>
    /\ ret' = <<>>
    /\ UNCHANGED <<fileVars, mainVars, fixture, alive, process>>

\* Thread o = Thread::create(...): the returned Thread becomes object o
ThreadCreate(o, created, lpThreadId) ==
    /\ Calling("ThreadTest") /\ o \notin alive
    /\ created => Fresh(kernel, ThreadHandles) # NULL
    /\ LET h == IF created THEN Fresh(kernel, ThreadHandles) ELSE NULL
           r == Thread_create(kernel, h, lpThreadId, TRUE)
       IN /\ kernel' = r.k
          /\ thread' = [thread EXCEPT ![o] = r.t]
          /\ ret' = <<r.ret>>
    /\ alive' = alive \cup {o}
    /\ last' = <<"create", o, lpThreadId>>
    /\ UNCHANGED <<fileVars, mainVars, fixture, process>>

\* the thread or process behind an issued handle terminates by itself
Primary(hp) == hp - 10

TargetExit(h, code) ==
    /\ last = <<>>
    /\ kernel.owner[h] \in {"caller", "wrapper"}
    /\ kernel.exit[h] = Running
    /\ IF h \in ThreadHandles THEN fixture = "ThreadTest" /\ kernel.susp[h] = 0
                              ELSE kernel.susp[Primary(h)] = 0
    /\ kernel' = [kernel EXCEPT !.exit[h] = code]
    /\ UNCHANGED <<fileVars, mainVars, fixture, alive, thread, process, last, ret>>

NextThread ==
    \E o \in Objs :
        \/ ThreadCtor(o)
        \/ ThreadDtor(o)
        \/ \E other \in Objs : ThreadMoveCtor(o, other)
        \/ \E other \in Objs : ThreadMoveAssign(o, other)
        \/ ThreadRelease(o)
        \/ ThreadReset(o)
        \/ /\ InThread(o)
           /\ \E h \in Offered(kernel, ThreadHandles), ok \in BOOLEAN :
                  \E id \in {0, BogusId, OsTid(h)} : ThreadResetH(o, h, id, ok)
        \/ \E other \in Objs : ThreadSwap(o, other)
        \/ \E ok \in BOOLEAN : ThreadJoin(o, ok)
        \/ ThreadDetach(o)
        \/ \E ok \in BOOLEAN : ThreadTryExitCode(o, ok)
        \/ \E ok \in BOOLEAN : ThreadIsRunning(o, ok)
        \/ \E code \in ExitCodes, ok \in BOOLEAN : ThreadTerminate(o, code, ok)
        \/ \E ok \in BOOLEAN : ThreadSuspend(o, ok)
        \/ \E ok \in BOOLEAN : ThreadResume(o, ok)
        \/ \E ok \in BOOLEAN : ThreadWait(o, ok)
        \/ \E ms \in Timeouts, ok \in BOOLEAN : ThreadWaitFor(o, ms, ok)
        \/ \E ok \in BOOLEAN : ThreadSetPriority(o, ok)
        \/ \E p \in {2, THREAD_PRIORITY_ERROR_RETURN} : ThreadGetPriority(o, p)
        \/ \E prev \in {0, 1} : ThreadSetAffinity(o, prev)
        \/ \E created \in BOOLEAN, lpThreadId \in BOOLEAN : ThreadCreate(o, created, lpThreadId)
        \/ \E o2 \in Objs, ok \in BOOLEAN : ThreadReleaseReset(o, o2, ok)

\* a Process method on object o ends: r.k is the kernel, r.p the object
ProcessDone(name, o, r, v) ==
    /\ kernel' = r.k
    /\ process' = [process EXCEPT ![o] = r.p]
    /\ last' = <<name, o>>
    /\ ret' = v
    /\ UNCHANGED <<fileVars, mainVars, fixture, alive, thread>>

\* the same, for a method whose arguments args are recorded after its name
ProcessDoneArgs(name, o, args, r, v) ==
    /\ kernel' = r.k
    /\ process' = [process EXCEPT ![o] = r.p]
    /\ last' = <<name, o>> \o args
    /\ ret' = v
    /\ UNCHANGED <<fileVars, mainVars, fixture, alive, thread>>

\* a Process method that leaves the object alone ends
ProcessConst(name, o, r) ==
    /\ kernel' = r.k
    /\ last' = <<name, o>>
    /\ ret' = <<r.ret>>
    /\ UNCHANGED <<fileVars, mainVars, fixture, alive, process, thread>>

\* a Process constructor or factory with arguments args ends: object o now exists
ProcessBorn(name, o, args, r) ==
    /\ kernel' = r.k
    /\ process' = [process EXCEPT ![o] = r.p]
    /\ alive' = alive \cup {o}
    /\ last' = <<name, o>> \o args
    /\ ret' = <<>>
    /\ UNCHANGED <<fileVars, mainVars, fixture, thread>>

\* a binary Process method ends: m.this and m.other are the two objects
ProcessBoth(name, o, other, k, m) ==
    /\ kernel' = k
    /\ process' = [[process EXCEPT ![o] = m.this] EXCEPT ![other] = m.other]
    /\ last' = <<name, o, other>>
    /\ ret' = <<>>
    /\ UNCHANGED <<fileVars, mainVars, fixture, thread>>

ProcessCtor(o) ==
    /\ Calling("ProcessTest") /\ o \notin alive
    /\ ProcessBorn("Process", o, <<>>, [k |-> kernel, p |-> ZeroProcess])

\* the ids a caller passes along with a handle: none, or one that is not the handle's
CallerIds == {0, BogusId}

ProcessCtorH(o, hp, ht, pid, tid, okP, okT) ==
    /\ Calling("ProcessTest") /\ o \notin alive
    /\ hp \in Offered(kernel, ProcessHandles)
    /\ ht \in Offered(kernel, ThreadHandles)
    /\ ProcessBorn("Process(h,h,id,id)", o, <<hp, ht, pid, tid>>, Process_ctor(kernel, hp, ht, pid, tid, okP, okT))

ProcessDtor(o) ==
    /\ InProcess(o)
    /\ LET r == Process_reset(kernel, process[o])
       IN /\ kernel' = r.k
          /\ process' = [process EXCEPT ![o] = r.p]
    /\ alive' = alive \ {o}
    /\ last' = <<"~Process", o>>
    /\ ret' = <<>>
    /\ UNCHANGED <<fileVars, mainVars, fixture, thread>>

ProcessMoveCtor(o, other) ==
    /\ Calling("ProcessTest") /\ o \notin alive /\ other \in alive
    /\ ProcessBoth("Process(Process&&)", o, other, kernel, Process_move(process[o], process[other]))
    /\ alive' = alive \cup {o}

ProcessMoveAssign(o, other) ==
    /\ InProcess(o) /\ InProcess(other)
    /\ IF other # o
       THEN LET r == Process_reset(kernel, process[o])
            IN ProcessBoth("operator=", o, other, r.k, Process_move(r.p, process[other]))
       ELSE ProcessBoth("operator=", o, other, kernel, [this |-> process[o], other |-> process[o]])
    /\ alive' = alive

ProcessRelease(o) ==
    /\ InProcess(o)
    /\ LET r == Process_release(kernel, process[o]) IN ProcessDone("release", o, r, r.ret)

ProcessReset(o) ==
    /\ InProcess(o)
    /\ ProcessDone("reset", o, Process_reset(kernel, process[o]), <<>>)

ProcessResetH(o, hp, ht, pid, tid, okP, okT) ==
    /\ InProcess(o)
    /\ hp \in Offered(kernel, ProcessHandles)
    /\ ht \in Offered(kernel, ThreadHandles)
    /\ ProcessDoneArgs("reset(h,h,id,id)", o, <<hp, ht, pid, tid>>,
                       Process_reset_h(kernel, process[o], hp, ht, pid, tid, okP, okT), <<>>)

ProcessSwap(o, other) ==
    /\ InProcess(o) /\ InProcess(other)
    /\ ProcessBoth("swap", o, other, kernel, Process_swap(process[o], process[other]))
    /\ alive' = alive

ProcessWait(o, ok) ==
    /\ InProcess(o)
    /\ ~(Process_valid(process[o]) /\ WaitBlocks(kernel, process[o].hProcess_, INFINITE, ok))
    /\ ProcessConst("wait", o, Process_wait(kernel, process[o], ok))

ProcessWaitFor(o, ms_count, ok) ==
    /\ InProcess(o)
    /\ ~(Process_valid(process[o]) /\ WaitBlocks(kernel, process[o].hProcess_, Process_wait_for_ms(ms_count), ok))
    /\ LET r == Process_wait_for(kernel, process[o], ms_count, ok)
       IN kernel' = r.k /\ ret' = <<r.ret>>
    /\ last' = <<"wait_for", o, ms_count>>
    /\ UNCHANGED <<fileVars, mainVars, fixture, alive, process, thread>>

ProcessTryExitCode(o, ok) ==
    InProcess(o) /\ ProcessConst("try_exit_code", o, Process_try_exit_code(kernel, process[o], ok))

ProcessIsRunning(o, ok) ==
    InProcess(o) /\ ProcessConst("is_running", o, Process_is_running(kernel, process[o], ok))

ProcessTerminate(o, code, ok) ==
    InProcess(o) /\ ProcessConst("terminate", o, Process_terminate(kernel, process[o], code, ok))

ProcessSetPriorityClass(o, ok) ==
    InProcess(o) /\ ProcessConst("set_priority_class", o, Process_set_priority_class(kernel, process[o], 32, ok))

ProcessGetPriorityClass(o, c) ==
    InProcess(o) /\ ProcessConst("get_priority_class", o, Process_get_priority_class(kernel, process[o], c))

ProcessSuspend(o, ok) ==
    InProcess(o) /\ ProcessConst("suspend", o, Process_suspend(kernel, process[o], ok))

ProcessResume(o, ok) ==
    InProcess(o) /\ ProcessConst("resume", o, Process_resume(kernel, process[o], ok))

\* auto [hp, ht] = o.release(); o2.reset(hp, ht, pid, tid), with the ids o held and
\* o2 either o or empty
ProcessReleaseReset(o, o2, okP, okT) ==
    /\ InProcess(o) /\ InProcess(o2)
    /\ Process_valid(process[o])
    /\ o2 = o \/ process[o2] = ZeroProcess
    /\ LET r1 == Process_release(kernel, process[o])
           r2 == Process_reset_h(r1.k, IF o2 = o THEN r1.p ELSE process[o2], r1.ret[1], r1.ret[2],
                                 Process_pid(process[o]), Process_tid(process[o]), okP, okT)
       IN /\ kernel' = r2.k
          /\ process' = [[process EXCEPT ![o] = r1.p] EXCEPT ![o2] = r2.p]
    /\ last' = <<"release;reset", o, o2>>
    /\ ret' = <<>>
    /\ UNCHANGED <<fileVars, mainVars, fixture, alive, thread>>

\* Process o = Process::create(...): the returned Process becomes object o
ProcessCreate(o, created, okP, okT) ==
    /\ Calling("ProcessTest") /\ o \notin alive
    /\ created => Fresh(kernel, ProcessHandles) # NULL /\ Fresh(kernel, ThreadHandles) # NULL
    /\ ProcessBorn("create", o, <<>>, Process_create(kernel, created, okP, okT))

NextProcess ==
    \E o \in Objs :
        \/ ProcessCtor(o)
        \/ /\ Calling("ProcessTest") /\ o \notin alive
           /\ \E hp \in Offered(kernel, ProcessHandles), ht \in Offered(kernel, ThreadHandles),
                 id \in CallerIds, okP \in BOOLEAN, okT \in BOOLEAN :
                  ProcessCtorH(o, hp, ht, id, id, okP, okT)
        \/ ProcessDtor(o)
        \/ \E other \in Objs : ProcessMoveCtor(o, other)
        \/ \E other \in Objs : ProcessMoveAssign(o, other)
        \/ ProcessRelease(o)
        \/ ProcessReset(o)
        \/ /\ InProcess(o)
           /\ \E hp \in Offered(kernel, ProcessHandles), ht \in Offered(kernel, ThreadHandles),
                 id \in CallerIds, okP \in BOOLEAN, okT \in BOOLEAN :
                  ProcessResetH(o, hp, ht, id, id, okP, okT)
        \/ \E other \in Objs : ProcessSwap(o, other)
        \/ \E ok \in BOOLEAN : ProcessWait(o, ok)
        \/ \E ms \in Timeouts, ok \in BOOLEAN : ProcessWaitFor(o, ms, ok)
        \/ \E ok \in BOOLEAN : ProcessTryExitCode(o, ok)
        \/ \E ok \in BOOLEAN : ProcessIsRunning(o, ok)
        \/ \E code \in ExitCodes, ok \in BOOLEAN : ProcessTerminate(o, code, ok)
        \/ \E ok \in BOOLEAN : ProcessSetPriorityClass(o, ok)
        \/ \E c \in {0, 32} : ProcessGetPriorityClass(o, c)
        \/ \E ok \in BOOLEAN : ProcessSuspend(o, ok)
        \/ \E ok \in BOOLEAN : ProcessResume(o, ok)
        \/ \E created \in BOOLEAN, okP \in BOOLEAN, okT \in BOOLEAN : ProcessCreate(o, created, okP, okT)
        \/ \E o2 \in Objs, okP \in BOOLEAN, okT \in BOOLEAN : ProcessReleaseReset(o, o2, okP, okT)

NextKernel == \E h \in RealHandles, code \in ExitCodes : TargetExit(h, code)

Next == NextThread \/ NextProcess \/ NextKernel \/ Continue

Spec == Init /\ [][Next]_vars

\* a program that exercises Thread alone, and one that exercises Process alone
InitThread == Init /\ fixture = "ThreadTest"
InitProcess == Init /\ fixture = "ProcessTest"

SpecThread == InitThread /\ [][NextThread \/ NextKernel \/ Continue]_vars
SpecProcess == InitProcess /\ [][NextProcess \/ NextKernel \/ Continue]_vars


\* ------------------------------------------ blocking waits, step by step
\* wait(), join() and a wait_for() with an unbounded timeout block inside
\* WaitForSingleObject while the target runs: the call is entered, the target
\* terminates, the call returns.  last = <<"blocked", object, method, count>>
\* while the caller is inside the call.
Blocked(name, o) == last # <<>> /\ last[1] = "blocked" /\ last[2] = o /\ last[3] = name

ThreadEnter(name, o, ms_count) ==
    /\ InThread(o) /\ Thread_valid(thread[o])
    /\ WaitBlocks(kernel, thread[o].hThread_,
                  IF name = "wait_for" THEN Thread_wait_for_ms(ms_count) ELSE INFINITE, TRUE)
    /\ last' = <<"blocked", o, name, ms_count>>
    /\ ret' = <<>>
    /\ UNCHANGED <<fileVars, mainVars, fixture, alive, thread, process, kernel>>

ThreadLeave(o) ==
    /\ fixture = "ThreadTest" /\ last # <<>> /\ last[1] = "blocked" /\ last[2] = o
    /\ kernel.exit[thread[o].hThread_] # Running
    /\ CASE last[3] = "wait" -> ThreadConst("wait", o, Thread_wait(kernel, thread[o], TRUE))
         [] last[3] = "join" -> ThreadDone("join", o, Thread_join(kernel, thread[o], TRUE), <<>>)
         [] OTHER -> LET r == Thread_wait_for(kernel, thread[o], last[4], TRUE)
                     IN /\ kernel' = r.k /\ ret' = <<r.ret>>
                        /\ last' = <<"wait_for", o, last[4]>>
                        /\ UNCHANGED <<fileVars, mainVars, fixture, alive, process, thread>>

ProcessEnter(o) ==
    /\ InProcess(o) /\ Process_valid(process[o])
    /\ WaitBlocks(kernel, process[o].hProcess_, INFINITE, TRUE)
    /\ last' = <<"blocked", o, "wait", INFINITE>>
    /\ ret' = <<>>
    /\ UNCHANGED <<fileVars, mainVars, fixture, alive, thread, process, kernel>>

ProcessLeave(o) ==
    /\ fixture = "ProcessTest" /\ Blocked("wait", o)
    /\ kernel.exit[process[o].hProcess_] # Running
    /\ ProcessConst("wait", o, Process_wait(kernel, process[o], TRUE))

\* the target behind an issued handle terminates while the caller is blocked
TargetExitBlocked(h, code) ==
    /\ last # <<>> /\ last[1] = "blocked"
    /\ kernel.owner[h] \in {"caller", "wrapper"}
    /\ kernel.exit[h] = Running
    /\ IF h \in ThreadHandles THEN fixture = "ThreadTest" /\ kernel.susp[h] = 0
                              ELSE kernel.susp[Primary(h)] = 0
    /\ kernel' = [kernel EXCEPT !.exit[h] = code]
    /\ UNCHANGED <<fileVars, mainVars, fixture, alive, thread, process, last, ret>>

NextBlocked ==
    \/ \E o \in Objs, name \in {"wait", "join"} : ThreadEnter(name, o, INFINITE)
    \/ \E o \in Objs, ms \in Timeouts : ThreadEnter("wait_for", o, ms)
    \/ \E o \in Objs : ThreadLeave(o)
    \/ \E o \in Objs : ProcessEnter(o)
    \/ \E o \in Objs : ProcessLeave(o)
    \/ \E h \in RealHandles, code \in ExitCodes : TargetExitBlocked(h, code)

\* fairness: WaitForSingleObject returns once the object it waits for is signaled
SpecBlocking ==
    /\ Init /\ [][Next \/ NextBlocked]_vars
    /\ \A o \in Objs : WF_vars(ThreadLeave(o)) /\ WF_vars(ProcessLeave(o))

\* ------------------------------------------------ the UTF-8 creation bridge
\* A std::string is a sequence of bytes: 0 the terminator, 97 the letter a,
\* 195 and 169 the lead and the continuation byte of a two-byte character.
Utf8Strings == UNION {[1 .. n -> {0, 97, 195, 169}] : n \in 0 .. MaxLen}

\* the UTF-16 text MultiByteToWideChar(CP_UTF8, 0, ...) makes of a terminated
\* byte string: a two-byte sequence gives its code point, a stray lead or
\* continuation byte gives U+FFFD
RECURSIVE Decode(_)
Decode(s) ==
    IF s = <<>> \/ s[1] = 0 THEN <<>>
    ELSE IF Len(s) >= 2 /\ s[1] \in 192 .. 223 /\ s[2] \in 128 .. 191
         THEN <<(s[1] - 192) * 64 + (s[2] - 128)>> \o Decode(SubSeq(s, 3, Len(s)))
    ELSE IF s[1] >= 128 THEN <<65533>> \o Decode(Tail(s))
    ELSE <<s[1]>> \o Decode(Tail(s))

\* MultiByteToWideChar(CP_UTF8, 0, str.c_str(), -1, ...): the terminator is
\* converted too; <<>> stands for the return value 0
MultiByteToWideChar(str, ok) == IF ok THEN Decode(str) \o <<0>> ELSE <<>>

\* a bridge that keeps what MultiByteToWideChar wrote, terminator included
utf8_to_wstring_keeps_terminator(str, ok) ==
    IF str = <<>> THEN <<>> ELSE MultiByteToWideChar(str, ok)

utf8_to_wstring(str, ok) ==
    IF str = <<>> THEN <<>>
    ELSE LET size_needed == Len(MultiByteToWideChar(str, ok))
         IN IF 0 >= size_needed THEN <<>>
            ELSE LET result == MultiByteToWideChar(str, ok)
                 IN IF 0 = result[Len(result)]
                    THEN SubSeq(result, 1, Len(result) - 1)
                    ELSE result

\* a const wchar_t*: the null pointer, or a pointer to the text ws
nullptr == [null |-> TRUE, str |-> <<>>]
Ptr(ws) == IF ws = <<>> THEN nullptr ELSE [null |-> FALSE, str |-> ws]

\* Process::create(const wchar_t* an, wchar_t* cl, ..., const wchar_t* cd, ...)
Process_create_native(k, an, cl, cd, created, okP, okT) ==
    LET r == Process_create(k, created, okP, okT)
    IN [r EXCEPT !.k.calls[1].arg = <<an, cl, cd>>]

\* Process::create(const std::wstring an, std::wstring cl, ..., const std::wstring cd, ...)
Process_create_wstring(k, an, cl, cd, created, okP, okT) ==
    LET cs == IF cd = <<>> THEN nullptr ELSE [null |-> FALSE, str |-> cd]
        as == IF an = <<>> THEN nullptr ELSE [null |-> FALSE, str |-> an]
        ps == IF cl = <<>> THEN nullptr ELSE [null |-> FALSE, str |-> cl]
        r == Process_create(k, created, okP, okT)
    IN [r EXCEPT !.k.calls[1].arg = <<as, ps, cs>>]

Process_create_utf8(k, application_name, command_line, current_directory, ok, created, okP, okT) ==
    LET an == utf8_to_wstring(application_name, ok)
        cl == utf8_to_wstring(command_line, ok)
        cd == utf8_to_wstring(current_directory, ok)
    IN Process_create_wstring(k, an, cl, cd, created, okP, okT)

ProcessCreateUtf8(o, an, cl, cd, ok, created, okP, okT) ==
    /\ Calling("ProcessTest") /\ o \notin alive
    /\ created => Fresh(kernel, ProcessHandles) # NULL /\ Fresh(kernel, ThreadHandles) # NULL
    /\ ProcessBorn("create_utf8", o, <<an, cl, cd>>,
                   Process_create_utf8(kernel, an, cl, cd, ok, created, okP, okT))

ProcessCreateNative(o, an, cl, cd, created, okP, okT) ==
    /\ Calling("ProcessTest") /\ o \notin alive
    /\ created => Fresh(kernel, ProcessHandles) # NULL /\ Fresh(kernel, ThreadHandles) # NULL
    /\ ProcessBorn("create(wchar_t*)", o, <<an, cl, cd>>,
                   Process_create_native(kernel, an, cl, cd, created, okP, okT))

NextBridge ==
    \E o \in Objs :
        \/ /\ Calling("ProcessTest") /\ o \notin alive
           /\ \E str \in Utf8Strings, other \in {<<>>, <<97>>}, cl \in {<<>>, <<97>>}, ok \in BOOLEAN,
                 created \in BOOLEAN, okP \in BOOLEAN, okT \in BOOLEAN :
                  ProcessCreateUtf8(o, str, cl, other, ok, created, okP, okT)
        \/ /\ Calling("ProcessTest") /\ o \notin alive
           /\ \E str \in Utf8Strings, other \in {<<>>, <<97>>}, cl \in {<<>>, <<97>>}, ok \in BOOLEAN,
                 created \in BOOLEAN, okP \in BOOLEAN, okT \in BOOLEAN :
                  ProcessCreateUtf8(o, other, cl, str, ok, created, okP, okT)
        \/ /\ Calling("ProcessTest") /\ o \notin alive
           /\ \E an \in {nullptr, Ptr(<<97>>)}, cd \in {nullptr, Ptr(<<97>>)}, cl \in {nullptr, Ptr(<<97>>)},
                 created \in BOOLEAN, okP \in BOOLEAN, okT \in BOOLEAN :
                  ProcessCreateNative(o, an, cl, cd, created, okP, okT)
        \/ ProcessDtor(o)
        \/ Continue

\* a program that creates processes through the UTF-8 bridge and the native factory
SpecBridge == InitProcess /\ [][NextBridge]_vars

\* ============================================================ File, actions
\* the program of File_tests.cpp: the temporary file exists or was deleted
InitFile ==
    /\ fixture = "FileTest"
    /\ alive = {}
    /\ thread = [o \in Objs |-> ZeroThread]
    /\ process = [o \in Objs |-> ZeroProcess]
    /\ kernel = [owner |-> [h \in RealHandles |-> "free"],
                 closes |-> [h \in RealHandles |-> 0],
                 exit |-> [h \in RealHandles |-> Running],
                 susp |-> [h \in ThreadHandles |-> 0],
                 calls |-> <<>>]
    /\ last = <<>>
    /\ ret = <<>>
    /\ file = [o \in Objs |-> ZeroFile]
    /\ disk \in {Disk0(exists) : exists \in BOOLEAN}
    /\ mem = [n |-> 0, arr |-> <<>>, min_el |-> 0, max_el |-> 0, av |-> 0]
    /\ pc = [t \in Threads |-> "idle"]
    /\ loc = [t \in Workers |-> [i |-> 0, a |-> 0, b |-> 0, sum |-> 0]]

InFile(o) == Calling("FileTest") /\ o \in alive

\* the caller has read the result of the last call and goes on
FileContinue ==
    /\ fixture = "FileTest"
    /\ last # <<>>
    /\ last' = <<>>
    /\ ret' = <<>>
    /\ disk' = Begin(disk)
    /\ UNCHANGED <<mainVars, coreVars, fixture, alive, file>>

\* a File method on object o ends: r.d is the disk, r.f the object
FileDone(name, o, r, v) ==
    /\ disk' = r.d
    /\ file' = [file EXCEPT ![o] = r.f]
    /\ last' = <<name, o>>
    /\ ret' = v
    /\ UNCHANGED <<mainVars, coreVars, fixture, alive>>

\* a const File method with arguments args ends
FileConst(name, o, args, r, v) ==
    /\ disk' = r.d
    /\ last' = <<name, o>> \o args
    /\ ret' = v
    /\ UNCHANGED <<mainVars, coreVars, fixture, alive, file>>

\* a File constructor or factory with arguments args ends: object o now exists
FileBorn(name, o, args, r) ==
    /\ disk' = r.d
    /\ file' = [file EXCEPT ![o] = r.f]
    /\ alive' = alive \cup {o}
    /\ last' = <<name, o>> \o args
    /\ ret' = <<>>
    /\ UNCHANGED <<mainVars, coreVars, fixture>>

FileCtor(o) ==
    /\ Calling("FileTest") /\ o \notin alive
    /\ FileBorn("File", o, <<>>, [d |-> disk, f |-> ZeroFile])

FileCtorH(o, h) ==
    /\ Calling("FileTest") /\ o \notin alive
    /\ FileBorn("File(h)", o, <<h>>, [d |-> disk, f |-> File_ctor_h(h)])

\* File o = File::open(...): the returned File becomes object o
FileOpen(o, dwCreationDisposition, ok) ==
    /\ Calling("FileTest") /\ o \notin alive
    /\ FileBorn("open", o, <<dwCreationDisposition>>, File_open(disk, dwCreationDisposition, ok))

FileDtor(o) ==
    /\ InFile(o)
    /\ LET r == File_dtor(disk, file[o])
       IN /\ disk' = r.d
          /\ file' = [file EXCEPT ![o] = r.f]
    /\ alive' = alive \ {o}
    /\ last' = <<"~File", o>>
    /\ ret' = <<>>
    /\ UNCHANGED <<mainVars, coreVars, fixture>>

FileMoveCtor(o, other) ==
    /\ Calling("FileTest") /\ o \notin alive /\ other \in alive
    /\ LET m == File_move(file[o], file[other])
       IN file' = [[file EXCEPT ![o] = m.this] EXCEPT ![other] = m.other]
    /\ alive' = alive \cup {o}
    /\ last' = <<"File(File&&)", o, other>>
    /\ ret' = <<>>
    /\ UNCHANGED <<mainVars, coreVars, fixture, disk>>

FileMoveAssign(o, other) ==
    /\ InFile(o) /\ InFile(other)
    /\ IF o # other
       THEN LET r == File_close(disk, file[o])
                m == File_move(r.f, file[other])
            IN /\ disk' = r.d
               /\ file' = [[file EXCEPT ![o] = m.this] EXCEPT ![other] = m.other]
       ELSE UNCHANGED <<disk, file>>
    /\ last' = <<"operator=", o, other>>
    /\ ret' = <<>>
    /\ UNCHANGED <<mainVars, coreVars, fixture, alive>>

FileIsOpened(o) ==
    InFile(o) /\ FileConst("is_opened", o, <<>>, [d |-> disk], <<BoolRet(File_is_opened(file[o]))>>)

FileOperatorBool(o) ==
    InFile(o) /\ FileConst("operator bool", o, <<>>, [d |-> disk], <<BoolRet(File_operator_bool(file[o]))>>)

\* write(buf, size) with size the length of buf; the file stays within MaxFileSize
FileWrite(o, buf, ok) ==
    /\ InFile(o)
    /\ IsOpenHandle(disk, file[o].hFile_) => disk.pos[file[o].hFile_] + Len(buf) <= MaxFileSize
    /\ LET r == File_write(disk, file[o], buf, Len(buf), ok)
       IN FileConst("write", o, <<buf>>, r, <<r.ret>>)

\* read(buf, size): the result is the bool returned and the bytes stored in buf
FileRead(o, size, ok) ==
    /\ InFile(o)
    /\ LET r == File_read(disk, file[o], size, ok)
       IN FileConst("read", o, <<size>>, r, <<r.ret, r.buf>>)

FileGetCh(o, ok) ==
    /\ InFile(o)
    /\ LET r == File_getCh(disk, file[o], ok)
       IN FileConst("getCh", o, <<>>, r, <<r.ret>>)

FileClose(o) ==
    /\ InFile(o)
    /\ LET r == File_close(disk, file[o])
       IN FileDone("close", o, r, <<r.ret>>)

FileGetFilePointer(o, ok) ==
    /\ InFile(o)
    /\ LET r == File_getFilePointer(disk, file[o], ok)
       IN FileConst("getFilePointer", o, <<>>, r, <<r.ret>>)

FileSetFilePointer(o, p, ok) ==
    /\ InFile(o)
    /\ LET r == File_setFilePointer(disk, file[o], p, ok)
       IN FileConst("setFilePointer", o, <<p>>, r, <<r.ret>>)

FileGetFileSize(o, ok) ==
    /\ InFile(o)
    /\ LET r == File_getFileSize(disk, file[o], ok)
       IN FileConst("getFileSize", o, <<>>, r, <<r.ret>>)

\* the positions a test passes to setFilePointer: inside the file, its end, and
\* a DWORD that is negative as a LONG
Positions == (0 .. MaxFileSize) \cup {DWORD_MOD \div 2}

NextFile ==
    \/ \E o \in Objs :
        \/ FileCtor(o)
        \/ \E h \in {NULL, INVALID_HANDLE_VALUE} : FileCtorH(o, h)
        \/ \E dwCreationDisposition \in Dispositions, ok \in BOOLEAN : FileOpen(o, dwCreationDisposition, ok)
        \/ FileDtor(o)
        \/ \E other \in Objs : FileMoveCtor(o, other)
        \/ \E other \in Objs : FileMoveAssign(o, other)
        \/ FileIsOpened(o)
        \/ FileOperatorBool(o)
        \/ \E buf \in Buffers, ok \in BOOLEAN : FileWrite(o, buf, ok)
        \/ \E size \in 0 .. 2, ok \in BOOLEAN : FileRead(o, size, ok)
        \/ \E ok \in BOOLEAN : FileGetCh(o, ok)
        \/ FileClose(o)
        \/ \E ok \in BOOLEAN : FileGetFilePointer(o, ok)
        \/ \E p \in Positions, ok \in BOOLEAN : FileSetFilePointer(o, p, ok)
        \/ \E ok \in BOOLEAN : FileGetFileSize(o, ok)
    \/ FileContinue

SpecFile == InitFile /\ [][NextFile]_vars

\* ======================================= the demonstration program, actions
\* _tmain has read n >= 1 and the n elements of arr and is before line 88
InitMain ==
    /\ fixture = "Main"
    /\ alive = {}
    /\ thread = [o \in Objs |-> ZeroThread]
    /\ process = [o \in Objs |-> ZeroProcess]
    /\ kernel = [owner |-> [h \in RealHandles |-> "free"],
                 closes |-> [h \in RealHandles |-> 0],
                 exit |-> [h \in RealHandles |-> Running],
                 susp |-> [h \in ThreadHandles |-> 0],
                 calls |-> <<>>]
    /\ last = <<>>
    /\ ret = <<>>
    /\ file = [o \in Objs |-> ZeroFile]
    /\ disk = Disk0(FALSE)
    /\ mem \in UNION {{[n |-> n, arr |-> arr, min_el |-> 0, max_el |-> 0, av |-> 0] :
                         arr \in [1 .. n -> Values]} : n \in 1 .. MaxN}
    /\ pc = [t \in Threads |-> IF t = "main" THEN "L88" ELSE "idle"]
    /\ loc = [t \in Workers |-> [i |-> 0, a |-> 0, b |-> 0, sum |-> 0]]

\* the first statement of a worker
Entry(t) == IF t = "min_max" THEN "L13" ELSE "L57"

\* Thread o = Thread::create(NULL, 0, t, NULL, 0, NULL) at line at of _tmain;
\* created: CreateThread returns a handle, and worker t starts
Create(o, t, at, next, created) ==
    /\ fixture = "Main" /\ pc["main"] = at
    /\ created => Fresh(kernel, ThreadHandles) # NULL
    /\ LET h == IF created THEN Fresh(kernel, ThreadHandles) ELSE NULL
           r == Thread_create(Begin(kernel), h, FALSE, TRUE)
       IN /\ kernel' = r.k
          /\ thread' = [thread EXCEPT ![o] = r.t]
    /\ alive' = alive \cup {o}
    /\ pc' = [pc EXCEPT !["main"] = next, ![t] = IF created THEN Entry(t) ELSE "idle"]
    /\ UNCHANGED <<fileVars, fixture, process, last, ret, mem, loc>>

\* a join that lets the handle go without waiting for the thread
Join_no_wait(o, at, next) ==
    /\ fixture = "Main" /\ pc["main"] = at
    /\ LET r == Thread_detach(Begin(kernel), thread[o])
       IN /\ kernel' = r.k
          /\ thread' = [thread EXCEPT ![o] = r.t]
    /\ pc' = [pc EXCEPT !["main"] = next]
    /\ UNCHANGED <<fileVars, fixture, alive, process, last, ret, mem, loc>>

\* o.join() at line at of _tmain: it returns once the thread behind o has returned
Join(o, at, next) ==
    /\ fixture = "Main" /\ pc["main"] = at
    /\ ~(Thread_valid(thread[o]) /\ WaitBlocks(kernel, thread[o].hThread_, INFINITE, TRUE))
    /\ LET r == Thread_join(Begin(kernel), thread[o], TRUE)
       IN /\ kernel' = r.k
          /\ thread' = [thread EXCEPT ![o] = r.t]
    /\ pc' = [pc EXCEPT !["main"] = next]
    /\ UNCHANGED <<fileVars, fixture, alive, process, last, ret, mem, loc>>

\* lines 93-95: _tmain prints arr[min_el], arr[max_el] and av; ret is what it printed
ReadResults ==
    /\ fixture = "Main" /\ pc["main"] = "L93"
    /\ ret' = <<At(mem, mem.min_el), At(mem, mem.max_el), mem.av>>
    /\ pc' = [pc EXCEPT !["main"] = "L103"]
    /\ UNCHANGED <<fileVars, coreVars, fixture, alive, last, mem, loc>>

\* line 103: arr[min_el] = arr[max_el] = av
Replace ==
    /\ fixture = "Main" /\ pc["main"] = "L103"
    /\ mem' = [mem EXCEPT !.arr = [[@ EXCEPT ![mem.max_el + 1] = mem.av] EXCEPT ![mem.min_el + 1] = mem.av]]
    /\ pc' = [pc EXCEPT !["main"] = "L109"]
    /\ UNCHANGED <<fileVars, coreVars, fixture, alive, last, ret, loc>>

\* line 109: _tmain returns, th_average and th_minmax are destroyed
ReturnFromMain ==
    /\ fixture = "Main" /\ pc["main"] = "L109"
    /\ LET r1 == Thread_reset(Begin(kernel), thread[th_average])
           r2 == Thread_reset(r1.k, thread[th_minmax])
       IN /\ kernel' = r2.k
          /\ thread' = [[thread EXCEPT ![th_average] = r1.t] EXCEPT ![th_minmax] = r2.t]
    /\ alive' = {}
    /\ pc' = [pc EXCEPT !["main"] = "done"]
    /\ UNCHANGED <<fileVars, fixture, process, last, ret, mem, loc>>

\* worker t, started as Thread o, executes the statement it is at; when it returns,
\* the thread behind the handle of o has terminated with exit code 0
Step(t, o, r) ==
    /\ mem' = r.m
    /\ loc' = [loc EXCEPT ![t] = r.l]
    /\ pc' = [pc EXCEPT ![t] = r.at]
    /\ kernel' = IF r.at = "done" THEN [kernel EXCEPT !.exit[thread[o].hThread_] = 0] ELSE kernel
    /\ UNCHANGED <<fileVars, fixture, alive, thread, process, last, ret>>

MinMax ==
    /\ fixture = "Main" /\ pc["min_max"] \notin {"idle", "done"}
    /\ Step("min_max", th_minmax, min_max(mem, loc["min_max"], pc["min_max"]))

Average ==
    /\ fixture = "Main" /\ pc["average"] \notin {"idle", "done"}
    /\ Step("average", th_average, average(mem, loc["average"], pc["average"]))

Main ==
    \/ \E created \in BOOLEAN : Create(th_minmax, "min_max", "L88", "L89", created)
    \/ \E created \in BOOLEAN : Create(th_average, "average", "L89", "L91", created)
    \/ Join(th_minmax, "L91", "L92")
    \/ Join(th_average, "L92", "L93")
    \/ ReadResults
    \/ Replace
    \/ ReturnFromMain

NextMain == Main \/ MinMax \/ Average

\* the scheduler lets every thread that can run make a step
SpecMain ==
    /\ InitMain /\ [][NextMain]_vars
    /\ WF_vars(Main) /\ WF_vars(MinMax) /\ WF_vars(Average)

\* ================================================================= claims
Returned(name, o) == last # <<>> /\ last[1] = name /\ last[2] = o

\* the CloseHandle calls of a call log, in order
RECURSIVE Closed(_)
Closed(log) ==
    IF log = <<>> THEN <<>>
    ELSE IF Head(log).api = "CloseHandle" THEN <<Head(log).h>> \o Closed(Tail(log))
    ELSE Closed(Tail(log))

\* how many times handle h occurs in a sequence of handles
RECURSIVE Count(_, _)
Count(seq, h) ==
    IF seq = <<>> THEN 0 ELSE (IF Head(seq) = h THEN 1 ELSE 0) + Count(Tail(seq), h)

\* C1: over any sequence of Thread operations no thread handle is closed by
\* the wrappers more than once, a handle is closed only while a wrapper owns
\* it, and once every Thread is destroyed no handle is left with the wrappers:
\* each is either back with the caller (never closed) or closed exactly once.
C1_ThreadHandleClosedExactlyOnce ==
    fixture = "ThreadTest" =>
        /\ \A h \in ThreadHandles :
              /\ kernel.closes[h] <= 1
              /\ kernel.closes[h] = 1 <=> kernel.owner[h] = "closed"
        /\ alive = {} => \A h \in ThreadHandles : kernel.owner[h] # "wrapper"

C1_Witness ==
    /\ fixture = "ThreadTest" /\ alive = {}
    /\ last # <<>> /\ last[1] = "~Thread"
    /\ \E h \in ThreadHandles : kernel.closes[h] = 1
    /\ \E h \in ThreadHandles : kernel.owner[h] = "caller"


\* a handle that is neither of the two sentinels
IsReal(h) == h # NULL /\ h # INVALID_HANDLE_VALUE

ReturnedNext(name, o) == last' # <<>> /\ last'[1] = name /\ last'[2] = o

\* the closes a Process holding (hp, ht) owes: the thread handle, then the process handle
OwedCloses(hp, ht) ==
    (IF IsReal(ht) THEN <<ht>> ELSE <<>>) \o (IF IsReal(hp) THEN <<hp>> ELSE <<>>)

\* every handle of the sequence is an open handle closed by this step, for the first time
ClosedOnceNext(seq) ==
    \A i \in 1 .. Len(seq) :
        /\ seq[i] \in RealHandles
        /\ Count(seq, seq[i]) = 1
        /\ kernel.closes[seq[i]] = 0 /\ kernel'.closes[seq[i]] = 1

\* C2: whenever a Process closes its handles (reset(), destruction,
\* move-assignment into it, reset(p,t,pid,tid), failed adoption) the thread
\* handle is closed before the process handle, each exactly once, and the four
\* fields are cleared (before move-assignment and adoption fill them again).
C2_ProcessClosesThreadThenProcess ==
    [][fixture = "ProcessTest" =>
        \A o \in Objs :
            LET old == OwedCloses(process[o].hProcess_, process[o].hThread_)
                log == Closed(kernel'.calls)
            IN /\ (ReturnedNext("reset", o) \/ ReturnedNext("~Process", o)) =>
                    log = old /\ ClosedOnceNext(log) /\ process'[o] = ZeroProcess
               /\ (ReturnedNext("operator=", o) /\ last'[3] # o) =>
                    log = old /\ ClosedOnceNext(log) /\ process'[o] = process[last'[3]]
               /\ (ReturnedNext("reset(h,h,id,id)", o) \/ ReturnedNext("Process(h,h,id,id)", o)) =>
                    LET new == OwedCloses(last'[3], last'[4])
                    IN /\ ClosedOnceNext(log)
                       /\ \/ log = old /\ process'[o].hProcess_ = last'[3] /\ process'[o].hThread_ = last'[4]
                          \/ log = old \o new /\ process'[o] = ZeroProcess]_vars

C2_Witness ==
    /\ fixture = "ProcessTest"
    /\ \E o \in Objs : Returned("operator=", o) /\ last[3] # o /\ Process_valid(process[o])
    /\ \E hp \in ProcessHandles, ht \in ThreadHandles : Closed(kernel.calls) = <<ht, hp>>


\* the open handles object o stores
Held(o) ==
    IF fixture = "ThreadTest"
    THEN {thread[o].hThread_} \cap RealHandles
    ELSE {process[o].hProcess_, process[o].hThread_} \cap RealHandles

\* C3: in every reachable state no open handle is stored in two wrapper
\* objects: the handles two distinct Thread objects, or two distinct Process
\* objects, store are disjoint, and no stored handle is one a caller holds.
C3_NoHandleInTwoWrappers ==
    /\ \A o1 \in Objs, o2 \in Objs : o1 # o2 => Held(o1) \cap Held(o2) = {}
    /\ \A o \in Objs : \A h \in Held(o) : kernel.owner[h] = "wrapper"

C3_Witness ==
    /\ fixture = "ProcessTest"
    /\ Returned("operator=", "a") /\ last[3] = "b"
    /\ Process_valid(process["a"]) /\ process["b"] = ZeroProcess
    /\ Closed(kernel.calls) # <<>>

\* C4: after any public operation every Thread holds either an open handle
\* with a non-zero id, or the null handle with id 0; it never stores
\* INVALID_HANDLE_VALUE and never pairs an open handle with id 0.
C4_ThreadHandleIdPaired ==
    fixture = "ThreadTest" =>
        \A o \in Objs :
            \/ thread[o].hThread_ \in ThreadHandles /\ thread[o].tid_ # 0
            \/ thread[o].hThread_ = NULL /\ thread[o].tid_ = 0

C4_Witness ==
    /\ fixture = "ThreadTest"
    /\ \E o \in Objs :
          /\ Returned("reset(h,id)", o) /\ last[3] \in ThreadHandles /\ last[4] = 0
          /\ thread[o] = [hThread_ |-> last[3], tid_ |-> OsTid(last[3])]

\* C5: after construction or any public operation every Process is either
\* fully populated (both handles neither null nor INVALID_HANDLE_VALUE, pid
\* and tid non-zero) or fully cleared (both handles null, pid = tid = 0).
C5_ProcessPopulatedOrCleared ==
    fixture = "ProcessTest" =>
        \A o \in Objs :
            \/ /\ IsReal(process[o].hProcess_) /\ IsReal(process[o].hThread_)
               /\ process[o].pid_ # 0 /\ process[o].tid_ # 0
            \/ process[o] = ZeroProcess


\* the call log holds a call of api on handle h that returned res
Logged(log, api, h, res) ==
    \E i \in 1 .. Len(log) : log[i].api = api /\ log[i].h = h /\ log[i].res = res

\* the close a Thread holding handle h owes
OwedClose(h) == IF IsReal(h) THEN <<h>> ELSE <<>>

\* C6: Thread adoption is all-or-nothing.  reset(h, 0) with an open handle h
\* whose id GetThreadId cannot resolve closes the handle held before and then
\* h, each exactly once, and leaves the Thread empty; reset(h, id) with h null
\* or INVALID_HANDLE_VALUE closes only the handle held before, exactly once,
\* never passes h to CloseHandle, and leaves the Thread empty.
C6_ThreadAdoptionAllOrNothing ==
    [][fixture = "ThreadTest" =>
        \A o \in Objs :
            ReturnedNext("reset(h,id)", o) =>
                LET h == last'[3]
                    old == OwedClose(thread[o].hThread_)
                    log == Closed(kernel'.calls)
                IN /\ (IsReal(h) /\ last'[4] = 0 /\ Logged(kernel'.calls, "GetThreadId", h, 0)) =>
                        log = old \o <<h>> /\ ClosedOnceNext(log) /\ thread'[o] = ZeroThread
                   /\ ~IsReal(h) =>
                        log = old /\ ClosedOnceNext(log) /\ thread'[o] = ZeroThread]_vars

C6_Witness ==
    /\ fixture = "ThreadTest"
    /\ \E o \in Objs :
          /\ Returned("reset(h,id)", o) /\ IsReal(last[3]) /\ last[4] = 0
          /\ Logged(kernel.calls, "GetThreadId", last[3], 0)
          /\ Len(Closed(kernel.calls)) = 2 /\ Closed(kernel.calls)[2] = last[3]
          /\ thread[o] = ZeroThread

\* the id calls of an adoption that failed
IdFailed(log) ==
    \E i \in 1 .. Len(log) : log[i].api \in {"GetProcessId", "GetThreadId"} /\ log[i].res = 0

\* C7: Process adoption rolls back completely.  Constructing or resetting a
\* Process from a pair in which a handle is null, or whose process id or
\* thread id the platform cannot resolve, closes every open handle of the pair
\* exactly once (after the handles held before) and leaves the object empty;
\* create() whose adoption fails closes both new handles and returns an empty
\* object; and on an empty object wait_for returns failed and
\* terminate/suspend/resume return false.
C7_ProcessAdoptionRollsBack ==
    [][fixture = "ProcessTest" =>
        \A o \in Objs :
            LET old == OwedCloses(process[o].hProcess_, process[o].hThread_)
                log == Closed(kernel'.calls)
            IN /\ ( /\ ReturnedNext("reset(h,h,id,id)", o) \/ ReturnedNext("Process(h,h,id,id)", o)
                    /\ last'[3] = NULL \/ last'[4] = NULL \/ IdFailed(kernel'.calls) ) =>
                      /\ log = old \o OwedCloses(last'[3], last'[4])
                      /\ ClosedOnceNext(log)
                      /\ process'[o] = ZeroProcess /\ ~Process_valid(process'[o])
               /\ (ReturnedNext("create", o) /\ IdFailed(kernel'.calls)) =>
                      /\ Len(log) = 2 /\ log[1] \in ThreadHandles /\ log[2] \in ProcessHandles
                      /\ ClosedOnceNext(log)
                      /\ process'[o] = ZeroProcess
               /\ (process[o] = ZeroProcess /\ ReturnedNext("wait_for", o)) => ret' = <<failed>>
               /\ ( /\ process[o] = ZeroProcess
                    /\ ReturnedNext("terminate", o) \/ ReturnedNext("suspend", o) \/ ReturnedNext("resume", o) ) =>
                      ret' = <<FALSE_>>]_vars

C7_Witness ==
    /\ fixture = "ProcessTest"
    /\ \E o \in Objs :
          /\ Returned("Process(h,h,id,id)", o)
          /\ last[3] \in ProcessHandles /\ last[4] \in ThreadHandles
          /\ Logged(kernel.calls, "GetThreadId", last[4], 0)
          /\ Closed(kernel.calls) = <<last[4], last[3]>>
          /\ process[o] = ZeroProcess


\* the operations of the two classes C8 lists, by what they return on an empty object
FailedOps == {"wait", "wait_for"}
FalseOps == {"terminate", "suspend", "resume", "set_priority", "set_priority_class"}
ZeroOps == {"get_priority", "get_priority_class", "set_affinity"}
NoOps == {"join", "detach", "reset"}
EmptyingOps == {"Thread", "Process", "reset", "release", "join", "detach"}
MovingOps == {"Thread(Thread&&)", "Process(Process&&)", "operator="}

\* object o of the class under test is empty in the current state / in the next
IsEmpty(o) ==
    IF fixture = "ThreadTest"
    THEN ~Thread_valid(thread[o]) /\ Thread_handle(thread[o]) = NULL /\ Thread_get_id(thread[o]) = 0
    ELSE /\ ~Process_valid(process[o])
         /\ Process_handle(process[o]) = NULL /\ Process_thread_handle(process[o]) = NULL
         /\ Process_pid(process[o]) = 0 /\ Process_tid(process[o]) = 0

IsEmptyNext(o) ==
    IF fixture = "ThreadTest"
    THEN ~Thread_valid(thread'[o]) /\ Thread_handle(thread'[o]) = NULL /\ Thread_get_id(thread'[o]) = 0
    ELSE /\ ~Process_valid(process'[o])
         /\ Process_handle(process'[o]) = NULL /\ Process_thread_handle(process'[o]) = NULL
         /\ Process_pid(process'[o]) = 0 /\ Process_tid(process'[o]) = 0

\* C8: a default-constructed, moved-from, reset, released, joined or detached
\* Thread or Process is empty (valid() false, handle accessors null, id
\* accessors 0), and on an empty object every listed operation returns its
\* failure value (wait/wait_for failed, terminate/suspend/resume/set_priority/
\* set_priority_class false, try_exit_code no value, get_priority/
\* get_priority_class/set_affinity 0; join/detach/reset return nothing), makes
\* no kernel call, and changes no field of any object.
C8_EmptyObjectOperationsFail ==
    [][\A o \in Objs :
          /\ (last' # <<>> /\ last'[2] = o /\ last'[1] \in EmptyingOps /\ Len(last') = 2) => IsEmptyNext(o)
          /\ (last' # <<>> /\ last'[2] = o /\ last'[1] \in MovingOps /\ last'[3] # o) => IsEmptyNext(last'[3])
          /\ (o \in alive /\ IsEmpty(o) /\ last' # <<>> /\ last'[2] = o) =>
                /\ last'[1] \in FailedOps => ret' = <<failed>>
                /\ last'[1] \in FalseOps => ret' = <<FALSE_>>
                /\ last'[1] = "try_exit_code" => ret' = <<nullopt>>
                /\ last'[1] \in ZeroOps => ret' = <<0>>
                /\ (last'[1] \in NoOps /\ Len(last') = 2) => ret' = <<>>
                /\ ( \/ last'[1] \in FailedOps \cup FalseOps \cup ZeroOps \cup {"try_exit_code"}
                     \/ last'[1] \in NoOps /\ Len(last') = 2 ) =>
                      /\ kernel' = kernel /\ kernel.calls = <<>>
                      /\ thread' = thread /\ process' = process /\ alive' = alive]_vars

C8_Witness ==
    /\ fixture = "ThreadTest"
    /\ \E o \in alive :
          /\ Returned("suspend", o) /\ IsEmpty(o)
          /\ ret = <<FALSE_>> /\ kernel.calls = <<>>
    /\ \E h \in ThreadHandles : kernel.owner[h] = "closed"

\* the call log is one exit-code probe (of the given API) of handle h
Probed(log, api, h) == Len(log) = 1 /\ log[1].api = api /\ log[1].h = h

\* C9: Thread::is_running() returns true if and only if the Thread is valid,
\* GetExitCodeThread on its handle succeeds and reports STILL_ACTIVE; on an
\* empty Thread it returns false without a kernel call, and when the probe
\* fails it returns false.
C9_ThreadIsRunning ==
    fixture = "ThreadTest" =>
        \A o \in Objs :
            Returned("is_running", o) =>
                /\ ret \in {<<TRUE_>>, <<FALSE_>>}
                /\ ret = <<TRUE_>> <=>
                      /\ Thread_valid(thread[o])
                      /\ Probed(kernel.calls, "GetExitCodeThread", thread[o].hThread_)
                      /\ kernel.calls[1].res = STILL_ACTIVE
                /\ ~Thread_valid(thread[o]) => kernel.calls = <<>>
                /\ Thread_valid(thread[o]) => Probed(kernel.calls, "GetExitCodeThread", thread[o].hThread_)

C9_Witness ==
    /\ fixture = "ThreadTest"
    /\ \E o \in Objs :
          /\ Returned("is_running", o) /\ Thread_valid(thread[o])
          /\ kernel.exit[thread[o].hThread_] = Running
          /\ kernel.calls[1].res = STILL_ACTIVE
          /\ ret = <<TRUE_>>

\* C10: Process::is_running() returns true if and only if the Process is
\* valid and GetExitCodeProcess on the process handle succeeds and reports
\* STILL_ACTIVE; it returns false on an empty Process and when the probe fails.
C10_ProcessIsRunning ==
    fixture = "ProcessTest" =>
        \A o \in Objs :
            Returned("is_running", o) =>
                /\ ret \in {<<TRUE_>>, <<FALSE_>>}
                /\ ret = <<TRUE_>> <=>
                      /\ Process_valid(process[o])
                      /\ Probed(kernel.calls, "GetExitCodeProcess", process[o].hProcess_)
                      /\ kernel.calls[1].res = STILL_ACTIVE


\* the handles of a sequence of handles
Range(seq) == {seq[i] : i \in 1 .. Len(seq)}

\* C11: a move-construction or move-assignment between two distinct objects
\* leaves the source empty and the destination with exactly the source's
\* handle(s) and id(s); the transferred handles are not closed and stay with
\* the wrappers; a move-assignment closes what the destination held before,
\* each handle for the first time (Process: thread handle first), and a
\* move-construction closes nothing.
C11_MoveTransfersOwnership ==
    [][\A o \in Objs :
          ( /\ ReturnedNext("operator=", o) \/ ReturnedNext("Thread(Thread&&)", o)
                                            \/ ReturnedNext("Process(Process&&)", o)
            /\ last'[3] # o ) =>
              LET src == last'[3]
                  log == Closed(kernel'.calls)
              IN /\ ClosedOnceNext(log)
                 /\ last'[1] # "operator=" => log = <<>>
                 /\ fixture = "ThreadTest" =>
                       /\ thread'[src] = ZeroThread /\ ~Thread_valid(thread'[src])
                       /\ thread'[o] = thread[src]
                       /\ log = OwedClose(thread[o].hThread_)
                       /\ thread[src].hThread_ \notin Range(log)
                       /\ IsReal(thread[src].hThread_) =>
                              kernel'.owner[thread[src].hThread_] = "wrapper"
                 /\ fixture = "ProcessTest" =>
                       /\ process'[src] = ZeroProcess /\ ~Process_valid(process'[src])
                       /\ process'[o] = process[src]
                       /\ log = OwedCloses(process[o].hProcess_, process[o].hThread_)
                       /\ {process[src].hProcess_, process[src].hThread_} \cap Range(log) = {}
                       /\ \A h \in {process[src].hProcess_, process[src].hThread_} \cap RealHandles :
                              kernel'.owner[h] = "wrapper"]_vars

C11_Witness ==
    /\ fixture = "ThreadTest"
    /\ Returned("operator=", "a") /\ last[3] = "b"
    /\ Thread_valid(thread["a"]) /\ thread["b"] = ZeroThread
    /\ Len(Closed(kernel.calls)) = 1
    /\ Closed(kernel.calls)[1] # thread["a"].hThread_

\* C12: a self-move-assignment leaves the object as it was (same handles and
\* ids, still valid if it was), makes no kernel call and closes nothing.
C12_SelfMoveAssignUnchanged ==
    [][\A o \in Objs :
          (ReturnedNext("operator=", o) /\ last'[3] = o) =>
              /\ thread' = thread /\ process' = process /\ alive' = alive
              /\ kernel' = kernel /\ kernel'.calls = <<>>]_vars

C12_Witness ==
    /\ fixture = "ThreadTest"
    /\ \E o \in alive :
          /\ Returned("operator=", o) /\ last[3] = o
          /\ Thread_valid(thread[o]) /\ kernel.owner[thread[o].hThread_] = "wrapper"
          /\ kernel.calls = <<>>

\* C13: release() returns exactly the handle(s) the object held, leaves the
\* object empty, makes no kernel call and passes the handles to the caller;
\* and a handle in the caller's hands is not closed by any operation of the
\* wrappers (destruction included) unless the caller hands it to that
\* operation again.
C13_ReleaseClosesNothing ==
    [][/\ \A o \in Objs :
             ReturnedNext("release", o) =>
                 /\ kernel'.calls = <<>> /\ kernel'.closes = kernel.closes
                 /\ fixture = "ThreadTest" =>
                       /\ ret' = <<thread[o].hThread_>> /\ thread'[o] = ZeroThread
                       /\ IsReal(thread[o].hThread_) => kernel'.owner[thread[o].hThread_] = "caller"
                 /\ fixture = "ProcessTest" =>
                       /\ ret' = <<process[o].hProcess_, process[o].hThread_>>
                       /\ process'[o] = ZeroProcess
                       /\ \A h \in {process[o].hProcess_, process[o].hThread_} \cap RealHandles :
                              kernel'.owner[h] = "caller"
       /\ \A h \in RealHandles :
             (kernel.owner[h] = "caller" /\ kernel'.owner[h] # "caller") =>
                 /\ last' # <<>> /\ Len(last') >= 4 /\ h \in {last'[3], last'[4]}
                 /\ last'[1] \in {"reset(h,id)", "reset(h,h,id,id)", "Process(h,h,id,id)"}]_vars

C13_Witness ==
    /\ fixture = "ProcessTest"
    /\ \E o \in alive :
          /\ Returned("release", o) /\ process[o] = ZeroProcess
          /\ Len(ret) = 2 /\ ret[1] \in ProcessHandles /\ ret[2] \in ThreadHandles
          /\ kernel.owner[ret[1]] = "caller" /\ kernel.owner[ret[2]] = "caller"
          /\ kernel.closes[ret[1]] = 0 /\ kernel.closes[ret[2]] = 0


\* C14 as stated: release() followed by reset with the released handle(s) and
\* id(s), on the same or another empty wrapper, always yields a valid wrapper
\* with exactly those handle(s) and id(s), and closes no handle.
C14_RoundTripAlways ==
    [][\A o \in Objs :
          ReturnedNext("release;reset", o) =>
              /\ Closed(kernel'.calls) = <<>> /\ kernel'.closes = kernel.closes
              /\ fixture = "ThreadTest" =>
                    /\ thread'[last'[3]] = thread[o] /\ Thread_valid(thread'[last'[3]])
                    /\ last'[3] # o => thread'[o] = ZeroThread
              /\ fixture = "ProcessTest" =>
                    /\ process'[last'[3]] = process[o] /\ Process_valid(process'[last'[3]])
                    /\ last'[3] # o => process'[o] = ZeroProcess]_vars

\* C14, amended: the Thread round trip always yields a valid wrapper with
\* exactly the released handle and id and closes nothing.  The Process round
\* trip does so provided GetProcessId and GetThreadId, which reset(p,t,pid,tid)
\* calls whatever ids it is given, both succeed; if one fails the wrapper is
\* left empty and both handles are closed, thread handle first.
C14_RoundTrip ==
    [][\A o \in Objs :
          ReturnedNext("release;reset", o) =>
              /\ fixture = "ThreadTest" =>
                    /\ Closed(kernel'.calls) = <<>> /\ kernel'.closes = kernel.closes
                    /\ thread'[last'[3]] = thread[o] /\ Thread_valid(thread'[last'[3]])
                    /\ last'[3] # o => thread'[o] = ZeroThread
              /\ (fixture = "ProcessTest" /\ ~IdFailed(kernel'.calls)) =>
                    /\ Closed(kernel'.calls) = <<>> /\ kernel'.closes = kernel.closes
                    /\ process'[last'[3]] = process[o] /\ Process_valid(process'[last'[3]])
                    /\ last'[3] # o => process'[o] = ZeroProcess
                    /\ Logged(kernel'.calls, "GetProcessId", process[o].hProcess_, process[o].pid_)
                    /\ Logged(kernel'.calls, "GetThreadId", process[o].hThread_, process[o].tid_)
              /\ (fixture = "ProcessTest" /\ IdFailed(kernel'.calls)) =>
                    /\ Closed(kernel'.calls) = <<process[o].hThread_, process[o].hProcess_>>
                    /\ process'[o] = ZeroProcess /\ process'[last'[3]] = ZeroProcess]_vars

C14_Witness ==
    /\ fixture = "ProcessTest"
    /\ Returned("release;reset", "a") /\ last[3] = "b"
    /\ Process_valid(process["b"]) /\ process["a"] = ZeroProcess
    /\ Logged(kernel.calls, "GetProcessId", process["b"].hProcess_, process["b"].pid_)
    /\ Closed(kernel.calls) = <<>>


\* C15: reset() closes each handle the object holds, for the first time, makes
\* no other kernel call and empties the object; on an empty object it makes no
\* kernel call and changes nothing; and a second reset() right after the first
\* makes no kernel call and changes nothing.
C15_ResetIdempotent ==
    [][\A o \in Objs :
          ReturnedNext("reset", o) =>
              LET log == Closed(kernel'.calls)
              IN /\ ClosedOnceNext(log) /\ Len(kernel'.calls) = Len(log)
                 /\ IsEmptyNext(o)
                 /\ IsEmpty(o) => kernel' = kernel /\ thread' = thread /\ process' = process
                 /\ fixture = "ThreadTest" =>
                       /\ log = OwedClose(thread[o].hThread_)
                       /\ Thread_reset(kernel', thread'[o]) = [k |-> kernel', t |-> thread'[o]]
                 /\ fixture = "ProcessTest" =>
                       /\ log = OwedCloses(process[o].hProcess_, process[o].hThread_)
                       /\ Process_reset(kernel', process'[o]) = [k |-> kernel', p |-> process'[o]]]_vars

C15_Witness ==
    /\ fixture = "ThreadTest"
    /\ \E o \in alive :
          /\ Returned("reset", o) /\ thread[o] = ZeroThread
          /\ Len(kernel.calls) = 1 /\ kernel.calls[1].api = "CloseHandle"
          /\ kernel.closes[kernel.calls[1].h] = 1
          /\ Thread_reset(kernel, thread[o]).k = kernel

\* C16: swap exchanges the complete state of the two objects (Thread: handle
\* and id; Process: both handles, pid, tid), makes no kernel call and changes
\* no handle's ownership; validity is exchanged with the state; swapping again
\* gives back the state before; swapping an object with itself changes nothing.
C16_SwapExchangesState ==
    [][\A o \in Objs :
          ReturnedNext("swap", o) =>
              LET b == last'[3]
              IN /\ kernel' = kernel /\ kernel'.calls = <<>> /\ alive' = alive
                 /\ fixture = "ThreadTest" =>
                       /\ thread'[o] = thread[b] /\ thread'[b] = thread[o]
                       /\ \A c \in Objs \ {o, b} : thread'[c] = thread[c]
                       /\ Thread_valid(thread'[o]) = Thread_valid(thread[b])
                       /\ Thread_valid(thread'[b]) = Thread_valid(thread[o])
                       /\ Thread_swap(thread'[o], thread'[b]) = [this |-> thread[o], other |-> thread[b]]
                       /\ b = o => thread' = thread
                 /\ fixture = "ProcessTest" =>
                       /\ process'[o] = process[b] /\ process'[b] = process[o]
                       /\ \A c \in Objs \ {o, b} : process'[c] = process[c]
                       /\ Process_valid(process'[o]) = Process_valid(process[b])
                       /\ Process_valid(process'[b]) = Process_valid(process[o])
                       /\ Process_swap(process'[o], process'[b]) = [this |-> process[o], other |-> process[b]]
                       /\ b = o => process' = process]_vars

C16_Witness ==
    /\ fixture = "ThreadTest"
    /\ Returned("swap", "a") /\ last[3] = "b"
    /\ Thread_valid(thread["a"]) /\ thread["b"] = ZeroThread
    /\ kernel.owner[thread["a"].hThread_] = "wrapper" /\ kernel.calls = <<>>


\* the timeouts the call log passes to WaitForSingleObject
WaitArgs(log) == {log[i].arg : i \in {j \in 1 .. Len(log) : log[j].api = "WaitForSingleObject"}}

\* C17: whatever millisecond count wait_for is given (negative, equal to
\* INFINITE, above the DWORD range), the timeout it passes to
\* WaitForSingleObject is never INFINITE.
C17_TimedWaitNeverInfinite ==
    \A o \in Objs : Returned("wait_for", o) => INFINITE \notin WaitArgs(kernel.calls)

\* C18: wait_for clamps and does not truncate: for a count c >= INFINITE - 1
\* the timeout passed to WaitForSingleObject is INFINITE - 1, and for
\* 0 <= c < INFINITE - 1 it is c.
C18_WaitForClamps ==
    \A o \in Objs :
        (Returned("wait_for", o) /\ last[3] >= 0 /\ kernel.calls # <<>>) =>
            WaitArgs(kernel.calls) = {IF last[3] >= INFINITE - 1 THEN INFINITE - 1 ELSE last[3]}


\* what try_exit_code has returned, for an object that is valid or not and
\* probes handle h with the given API
ExitCodeRule(valid, h, api) ==
    LET none == \/ ~valid
                \/ Logged(kernel.calls, api, h, nullopt)
                \/ kernel.exit[h] = Running
                \/ kernel.exit[h] = STILL_ACTIVE
    IN /\ ~valid => kernel.calls = <<>>
       /\ valid => Probed(kernel.calls, api, h)
       /\ IF none THEN ret = <<nullopt>> ELSE ret = <<kernel.exit[h]>>

\* C19: try_exit_code() returns no value when the object is not valid, when
\* the probe fails, when the target still runs and when the target has
\* terminated with exit code STILL_ACTIVE; otherwise it returns exactly the
\* target's exit code.  Thread probes its handle with GetExitCodeThread,
\* Process its process handle with GetExitCodeProcess.
C19_TryExitCode ==
    \A o \in Objs :
        Returned("try_exit_code", o) =>
            IF fixture = "ThreadTest"
            THEN ExitCodeRule(Thread_valid(thread[o]), thread[o].hThread_, "GetExitCodeThread")
            ELSE ExitCodeRule(Process_valid(process[o]), process[o].hProcess_, "GetExitCodeProcess")

C19_Witness ==
    /\ fixture = "ProcessTest"
    /\ \E o \in alive :
          /\ Returned("try_exit_code", o) /\ Process_valid(process[o])
          /\ kernel.exit[process[o].hProcess_] = STILL_ACTIVE
          /\ Logged(kernel.calls, "GetExitCodeProcess", process[o].hProcess_, STILL_ACTIVE)
          /\ ret = <<nullopt>>


\* the handle the waits and exit-code probes of object o act on, and whether o is valid
Target(o) == IF fixture = "ThreadTest" THEN thread[o].hThread_ ELSE process[o].hProcess_
IsValid(o) == IF fixture = "ThreadTest" THEN Thread_valid(thread[o]) ELSE Process_valid(process[o])

\* the exit-code probe of this step succeeded
ProbeOkNext == \A i \in 1 .. Len(kernel'.calls) : kernel'.calls[i].res # nullopt

\* a wait returns signaled only on a valid object whose target has terminated,
\* and the exit code of a terminated target never changes while its handle is open
SignaledMeansTerminated ==
    /\ \A o \in Objs :
          ((ReturnedNext("wait", o) \/ ReturnedNext("wait_for", o)) /\ ret' = <<signaled>>) =>
              IsValid(o) /\ kernel'.exit[Target(o)] # Running
    /\ \A h \in RealHandles :
          (kernel.exit[h] # Running /\ kernel.owner[h] # "closed") => kernel'.exit[h] = kernel.exit[h]

WaitOkNext ==
    \A i \in 1 .. Len(kernel'.calls) :
        kernel'.calls[i].api = "WaitForSingleObject" => kernel'.calls[i].res # WAIT_FAILED

\* what is_running() would answer on object o in the next state, the probe succeeding
IsRunningNext(o) ==
    IF fixture = "ThreadTest" THEN Thread_is_running(kernel', thread'[o], TRUE).ret
                              ELSE Process_is_running(kernel', process'[o], TRUE).ret

\* C21 (safety half): a wait_for(t) on a valid wrapper whose target does not
\* terminate within t (it is still running when the call returns, or t is not
\* positive and the target was running when the call was made) returns
\* timeout, provided WaitForSingleObject does not fail; and a wait_for that
\* returns timeout leaves every object as it was, the target running and
\* is_running() true.
C21_WaitForTimesOut ==
    [][\A o \in Objs :
          (ReturnedNext("wait_for", o) /\ IsValid(o) /\ WaitOkNext) =>
              /\ (\/ kernel'.exit[Target(o)] = Running
                  \/ Blocked("wait_for", o) /\ last[4] <= 0) => ret' = <<timeout>>
              /\ ret' = <<timeout>> =>
                    /\ thread' = thread /\ process' = process
                    /\ kernel'.exit[Target(o)] = Running
                    /\ IsRunningNext(o) = TRUE_]_vars

\* C21 (liveness half): a wait() that is blocked on a target returns signaled
\* once the target has terminated.
C21_WaitEventuallySignaled ==
    \A o \in Objs :
        (Blocked("wait", o) /\ kernel.exit[Target(o)] # Running)
            ~> (Returned("wait", o) /\ ret = <<signaled>>)


\* what wait() and try_exit_code() return when called on object o in the next
\* state, the platform calls succeeding
WaitNext(o) ==
    IF fixture = "ThreadTest" THEN Thread_wait(Begin(kernel'), thread'[o], TRUE).ret
                              ELSE Process_wait(Begin(kernel'), process'[o], TRUE).ret
TryExitCodeNext(o) ==
    IF fixture = "ThreadTest" THEN Thread_try_exit_code(Begin(kernel'), thread'[o], TRUE).ret
                              ELSE Process_try_exit_code(Begin(kernel'), process'[o], TRUE).ret

\* terminate(c) has just returned true on the valid object o whose target was running
Terminated(o) ==
    /\ ReturnedNext("terminate", o) /\ ret' = <<TRUE_>>
    /\ IsValid(o) /\ kernel.exit[Target(o)] = Running

\* C22 as stated: after terminate(c) returned true on a running target, the
\* wrapper is unchanged and valid, a following wait() returns signaled and
\* try_exit_code() returns c, for every exit code c.
C22_TerminateThenExitCode ==
    [][\A o \in Objs :
          Terminated(o) =>
              /\ thread' = thread /\ process' = process
              /\ kernel'.exit[Target(o)] = kernel'.calls[1].arg
              /\ WaitNext(o) = signaled
              /\ TryExitCodeNext(o) = kernel'.calls[1].arg]_vars

\* C22, amended: after terminate(c) returned true on a running target, the
\* wrapper is unchanged and valid, the target has terminated with code c, a
\* following wait() returns signaled, and try_exit_code() returns c if c is
\* not STILL_ACTIVE and no value if c is STILL_ACTIVE.
C22_TerminateThenExitCodeUnlessStillActive ==
    [][\A o \in Objs :
          Terminated(o) =>
              /\ thread' = thread /\ process' = process
              /\ kernel'.exit[Target(o)] = kernel'.calls[1].arg
              /\ WaitNext(o) = signaled
              /\ TryExitCodeNext(o) =
                    IF kernel'.calls[1].arg = STILL_ACTIVE THEN nullopt ELSE kernel'.calls[1].arg]_vars

C22_Witness ==
    /\ fixture = "ThreadTest"
    /\ \E o \in alive :
          /\ Returned("terminate", o) /\ ret = <<TRUE_>>
          /\ Thread_valid(thread[o])
          /\ Len(kernel.calls) = 1 /\ kernel.calls[1].api = "TerminateThread"
          /\ kernel.calls[1].arg = 28 /\ kernel.exit[thread[o].hThread_] = 28
          /\ Thread_try_exit_code(Begin(kernel), thread[o], TRUE).ret = 28


\* C23 (safety half): join() on a valid Thread returns only after the owned
\* thread has terminated, and on return the Thread is empty and its handle has
\* been closed exactly once; join() on an empty Thread makes no platform call
\* and changes nothing.
C23_JoinReturnsAfterTermination ==
    [][\A o \in Objs :
          ReturnedNext("join", o) =>
              IF Thread_valid(thread[o])
              THEN /\ kernel'.exit[thread[o].hThread_] # Running
                   /\ thread'[o] = ZeroThread
                   /\ Closed(kernel'.calls) = <<thread[o].hThread_>>
                   /\ kernel'.closes[thread[o].hThread_] = 1
              ELSE /\ kernel'.calls = <<>>
                   /\ thread' = thread
                   /\ kernel' = kernel]_vars

\* C23 (liveness half): a join() that is blocked on its thread returns once
\* the thread has terminated.
C23_JoinEventuallyReturns ==
    \A o \in Objs :
        (Blocked("join", o) /\ kernel.exit[thread[o].hThread_] # Running)
            ~> (Returned("join", o) /\ thread[o] = ZeroThread)


\* C24: detach() on a valid Thread makes exactly one platform call, the
\* CloseHandle of its handle, which is the first close of that handle (no
\* wait, so no blocking), leaves the Thread empty with valid() and joinable()
\* false, leaves every other object alone, and changes neither the exit state
\* nor the suspend count of any target; on an empty Thread it does nothing.
C24_DetachClosesWithoutTouchingTarget ==
    [][\A o \in Objs :
          ReturnedNext("detach", o) =>
              /\ thread'[o] = ZeroThread
              /\ ~Thread_valid(thread'[o]) /\ ~Thread_joinable(thread'[o])
              /\ \A p \in Objs \ {o} : thread'[p] = thread[p]
              /\ kernel'.exit = kernel.exit /\ kernel'.susp = kernel.susp
              /\ IF Thread_valid(thread[o])
                 THEN /\ Len(kernel'.calls) = 1
                      /\ Closed(kernel'.calls) = <<thread[o].hThread_>>
                      /\ kernel.closes[thread[o].hThread_] = 0
                      /\ kernel'.closes[thread[o].hThread_] = 1
                 ELSE kernel' = kernel]_vars

C24_Witness ==
    \E o \in alive, h \in ThreadHandles :
        /\ Returned("detach", o) /\ thread[o] = ZeroThread
        /\ Closed(kernel.calls) = <<h>>
        /\ kernel.exit[h] = Running /\ kernel.closes[h] = 1


\* the exit code try_exit_code() reports for a terminated target: the code,
\* or no value for the code STILL_ACTIVE
Readable(code) == IF code = STILL_ACTIVE THEN nullopt ELSE code

C27_ThreadCreate ==
    [][\A o \in Objs :
          ReturnedNext("create", o) /\ fixture = "ThreadTest" =>
              LET c == kernel'.calls[1]
              IN /\ Len(kernel'.calls) = 1 /\ c.api = "CreateThread"
                 /\ IF c.h # NULL
                    THEN /\ Thread_valid(thread'[o])
                         /\ Thread_handle(thread'[o]) = c.h
                         /\ Thread_get_id(thread'[o]) = c.res /\ c.res # 0
                         /\ ret' = <<IF last'[3] THEN c.res ELSE 0>>
                         /\ kernel.owner[c.h] = "free" /\ kernel'.owner[c.h] = "wrapper"
                         /\ kernel'.closes[c.h] = 0
                         /\ kernel'.exit[c.h] = Running
                         /\ Thread_is_running(Begin(kernel'), thread'[o], TRUE).ret = TRUE_
                    ELSE /\ thread'[o] = ZeroThread
                         /\ kernel'.owner = kernel.owner /\ kernel'.closes = kernel.closes
                 /\ \A p \in Objs \ {o} : thread'[p] = thread[p]]_vars

C27_Witness ==
    /\ fixture = "ThreadTest"
    /\ \E o \in alive, h \in ThreadHandles :
          /\ Returned("create", o) /\ last[3]
          /\ thread[o] = [hThread_ |-> h, tid_ |-> OsTid(h)]
          /\ ret = <<OsTid(h)>>
          /\ kernel.exit[h] = Running


\* the Process a successful creation record (hp, ht, pid, tid) describes
Created(hp, ht) == [hProcess_ |-> hp, hThread_ |-> ht, pid_ |-> OsPid(hp), tid_ |-> OsTid(ht)]

\* Process::create has just returned object o
ProcessCreated(o) == ReturnedNext("create", o) /\ fixture = "ProcessTest"

\* C28 as stated: when CreateProcessW succeeds the returned Process is valid
\* and holds exactly the handles and ids of the creation record; when it
\* fails the returned Process is empty and the record is neither read nor
\* closed.
C28_ProcessCreate ==
    [][\A o \in Objs :
          ProcessCreated(o) =>
              LET c == kernel'.calls[1]
              IN /\ c.api = "CreateProcessW"
                 /\ IF c.res = TRUE_
                    THEN /\ Process_valid(process'[o])
                         /\ process'[o] = Created(c.h, Fresh(kernel, ThreadHandles))
                         /\ Closed(kernel'.calls) = <<>>
                    ELSE /\ process'[o] = ZeroProcess
                         /\ Len(kernel'.calls) = 1
                         /\ kernel'.owner = kernel.owner /\ kernel'.closes = kernel.closes]_vars

\* C28, amended: when CreateProcessW succeeds and the constructor's
\* GetProcessId and GetThreadId both resolve, the returned Process is valid
\* and holds exactly the handles and ids of the creation record, with nothing
\* closed; when CreateProcessW succeeds and one of the two id queries fails,
\* the thread handle and then the process handle of the record are closed
\* and the returned Process is empty; when CreateProcessW fails the returned
\* Process is empty, no other platform call is made and no handle changes
\* hands.
C28_ProcessCreateResolved ==
    [][\A o \in Objs :
          ProcessCreated(o) =>
              LET c == kernel'.calls[1]
                  ht == Fresh(kernel, ThreadHandles)
              IN /\ c.api = "CreateProcessW"
                 /\ IF c.res = TRUE_
                    THEN IF IdFailed(kernel'.calls)
                         THEN /\ process'[o] = ZeroProcess
                              /\ Closed(kernel'.calls) = <<ht, c.h>>
                              /\ kernel'.closes[ht] = 1 /\ kernel'.closes[c.h] = 1
                         ELSE /\ Process_valid(process'[o])
                              /\ process'[o] = Created(c.h, ht)
                              /\ Closed(kernel'.calls) = <<>>
                              /\ kernel'.owner[c.h] = "wrapper" /\ kernel'.owner[ht] = "wrapper"
                    ELSE /\ process'[o] = ZeroProcess
                         /\ Len(kernel'.calls) = 1
                         /\ kernel'.owner = kernel.owner /\ kernel'.closes = kernel.closes]_vars

C28_Witness ==
    /\ fixture = "ProcessTest"
    /\ \E o \in alive, hp \in ProcessHandles, ht \in ThreadHandles :
          /\ Returned("create", o)
          /\ Logged(kernel.calls, "CreateProcessW", hp, TRUE_)
          /\ process[o] = Created(hp, ht)
          /\ Closed(kernel.calls) = <<>>


\* every value a HANDLE member can have in the model
HandleValues == RealHandles \cup {NULL, INVALID_HANDLE_VALUE}

\* C29: Thread::valid() is true iff the thread handle is neither null nor
\* INVALID_HANDLE_VALUE, for every handle value and for every object of every
\* reachable state, and joinable() and the boolean conversion equal valid();
\* Process::valid() is true iff the process handle is neither null nor
\* INVALID_HANDLE_VALUE and does not change with the primary-thread handle.
C29_ValidityPredicate ==
    /\ \A h \in HandleValues, id \in {0, BogusId} :
          LET t == [hThread_ |-> h, tid_ |-> id]
          IN /\ Thread_valid(t) = (h \notin {NULL, INVALID_HANDLE_VALUE})
             /\ Thread_joinable(t) = Thread_valid(t)
             /\ Thread_operator_bool(t) = Thread_valid(t)
    /\ \A o \in Objs :
          /\ Thread_valid(thread[o]) = (thread[o].hThread_ \notin {NULL, INVALID_HANDLE_VALUE})
          /\ Thread_joinable(thread[o]) = Thread_valid(thread[o])
          /\ Thread_operator_bool(thread[o]) = Thread_valid(thread[o])
          /\ Process_valid(process[o]) = (process[o].hProcess_ \notin {NULL, INVALID_HANDLE_VALUE})
          /\ Process_operator_bool(process[o]) = Process_valid(process[o])
          /\ \A hp \in HandleValues, ht \in HandleValues :
                Process_valid([process[o] EXCEPT !.hProcess_ = hp, !.hThread_ = ht])
                    = (hp \notin {NULL, INVALID_HANDLE_VALUE})

C29_Witness ==
    /\ \E o \in alive :
          /\ fixture = "ProcessTest"
          /\ process[o].hProcess_ = INVALID_HANDLE_VALUE
          /\ process[o].hThread_ \in ThreadHandles
          /\ ~Process_valid(process[o])
    /\ Thread_valid([hThread_ |-> 1, tid_ |-> 0])
    /\ ~Thread_valid([hThread_ |-> INVALID_HANDLE_VALUE, tid_ |-> 0])


\* C30: create_utf8 given an empty UTF-8 string for the application name or
\* the working directory passes a null pointer for that parameter to
\* CreateProcessW, and its whole effect is the effect of the native factory
\* called with null for that parameter and the converted text for the others;
\* the bridge maps the empty string to the empty native string, and a
\* converted string holds no terminator, at its end or elsewhere.
C30_Utf8BridgeEmptyIsDefault ==
    [][/\ \A o \in Objs :
             ReturnedNext("create_utf8", o) =>
                 LET c == kernel'.calls[1]
                     an == last'[3]
                     cd == last'[5]
                 IN /\ c.api = "CreateProcessW"
                    /\ an = <<>> => c.arg[1] = nullptr
                    /\ cd = <<>> => c.arg[3] = nullptr
                    /\ \E okP \in BOOLEAN, okT \in BOOLEAN :
                          LET n == Process_create_native(kernel,
                                       IF an = <<>> THEN nullptr ELSE c.arg[1],
                                       c.arg[2],
                                       IF cd = <<>> THEN nullptr ELSE c.arg[3],
                                       c.res = TRUE_, okP, okT)
                          IN kernel' = n.k /\ process'[o] = n.p
                    /\ \A i \in {1, 3} :
                          ~c.arg[i].null =>
                              /\ c.arg[i].str # <<>>
                              /\ \A j \in 1 .. Len(c.arg[i].str) : c.arg[i].str[j] # 0
       /\ \A str \in Utf8Strings, ok \in BOOLEAN :
             LET w == utf8_to_wstring(str, ok)
             IN /\ str = <<>> => w = <<>>
                /\ w # <<>> => w[Len(w)] # 0
                /\ ok /\ str # <<>> => w \o <<0>> = MultiByteToWideChar(str, ok)]_vars

C30_Witness ==
    \E o \in alive :
        /\ Returned("create_utf8", o)
        /\ last[3] = <<195, 169>> /\ last[5] = <<>>
        /\ kernel.calls[1].arg[1] = [null |-> FALSE, str |-> <<233>>]
        /\ kernel.calls[1].arg[3] = nullptr
        /\ Process_valid(process[o])

\* ----------------------------------------------------------------- C34
\* the operations that keep a valid object, the operations through which a valid
\* object is left without a valid handle, and those through which an object that
\* is not valid gets one
KeepingOps ==
    {"wait", "wait_for", "try_exit_code", "is_running", "terminate", "suspend", "resume",
     "set_priority", "get_priority", "set_affinity", "set_priority_class", "get_priority_class"}
ListedExits ==
    {"reset", "reset(h,id)", "reset(h,h,id,id)", "release", "release;reset", "operator=",
     "Thread(Thread&&)", "Process(Process&&)", "join", "detach", "~Thread", "~Process"}
ListedEntries ==
    {"reset(h,id)", "reset(h,h,id,id)", "release;reset", "Process(h,h,id,id)", "create",
     "operator=", "Thread(Thread&&)", "Process(Process&&)", "swap"}

IsValidNext(o) == IF fixture = "ThreadTest" THEN Thread_valid(thread'[o]) ELSE Process_valid(process'[o])

\* the call that returns in this step is one of ops and object o is an operand of it
ReturnsOn(ops, o) ==
    /\ last' # <<>> /\ last = <<>>
    /\ last'[1] \in ops
    /\ \/ last'[2] = o
       \/ last'[1] \in {"operator=", "Thread(Thread&&)", "Process(Process&&)", "swap", "release;reset"}
          /\ last'[3] = o

\* a keeping operation on a valid object changes the members of no object
KeptByKeepingOps ==
    \A o \in Objs :
        IsValid(o) /\ last' # <<>> /\ last = <<>> /\ last'[1] \in KeepingOps /\ last'[2] = o =>
            /\ thread' = thread /\ process' = process /\ alive' = alive
            /\ IsValidNext(o)

\* an object that is not valid becomes valid only in a listed entry
EntersThroughListed == \A o \in Objs : ~IsValid(o) /\ IsValidNext(o) => ReturnsOn(ListedEntries, o)

\* C34 as stated: wait, wait_for, try_exit_code, is_running, terminate, suspend,
\* resume, set_priority, get_priority, set_affinity, set_priority_class and
\* get_priority_class leave a valid object unchanged and valid; a valid object
\* stops being valid only in reset, release, a move, join, detach or destruction;
\* an object that is not valid becomes valid only in an adoption, a move or a swap
C34_OnlyListedExits ==
    [][/\ KeptByKeepingOps
       /\ \A o \in Objs : IsValid(o) /\ ~IsValidNext(o) => ReturnsOn(ListedExits, o)
       /\ EntersThroughListed]_vars

\* C34, amended: the same, with swap among the exits (a swap with an object that
\* is not valid leaves the valid one without its handle)
C34_OnlyListedExitsOrSwap ==
    [][/\ KeptByKeepingOps
       /\ \A o \in Objs : IsValid(o) /\ ~IsValidNext(o) => ReturnsOn(ListedExits \cup {"swap"}, o)
       /\ EntersThroughListed]_vars

\* terminate has returned true on a valid object, which is still valid, while the
\* other object is alive and empty
C34_Witness ==
    \E o \in alive, e \in alive :
        /\ Returned("terminate", o) /\ ret = <<TRUE_>>
        /\ IsValid(o) /\ ~IsValid(e)

\* ----------------------------------------------------------------- C35
\* C35: every return of Process::suspend() or Process::resume(). On a valid Process
\* the step makes exactly one platform call, SuspendThread or ResumeThread, on the
\* primary-thread handle the object holds (which is never its process handle), and
\* returns true iff that call did not return (DWORD)-1; on a Process that is not
\* valid it returns false and makes no platform call. No object changes. A
\* resume() the platform carries out on a primary thread whose suspend count is 0
\* returns true and leaves suspend counts and exit states as they were, so a
\* running process can still run to completion
C35_SuspendResumePrimaryThread ==
    [][\A o \in Objs :
          \A name \in {"suspend", "resume"} :
              ReturnedNext(name, o) /\ last = <<>> =>
                  /\ process' = process
                  /\ IF Process_valid(process[o])
                     THEN /\ Len(kernel'.calls) = 1
                          /\ kernel'.calls[1].api = (IF name = "suspend" THEN "SuspendThread" ELSE "ResumeThread")
                          /\ kernel'.calls[1].h = process[o].hThread_
                          /\ kernel'.calls[1].h # process[o].hProcess_
                          /\ ret' = <<BoolRet(kernel'.calls[1].res # ERROR_STATUS)>>
                          /\ kernel'.owner = kernel.owner /\ kernel'.closes = kernel.closes
                          /\ kernel'.exit = kernel.exit
                          /\ \A h \in ThreadHandles : h # process[o].hThread_ => kernel'.susp[h] = kernel.susp[h]
                          /\ (name = "resume" /\ kernel'.calls[1].res = 0) =>
                                 /\ ret' = <<TRUE_>>
                                 /\ kernel'.susp = kernel.susp
                                 /\ kernel.susp[process[o].hThread_] = 0
                     ELSE /\ ret' = <<FALSE_>>
                          /\ kernel' = kernel]_vars

\* resume() has returned true on a created, running process whose primary thread
\* was not suspended; the process can still terminate by itself
C35_Witness ==
    \E o \in alive :
        /\ fixture = "ProcessTest"
        /\ Returned("resume", o) /\ ret = <<TRUE_>>
        /\ Process_valid(process[o])
        /\ process[o].hThread_ = Primary(process[o].hProcess_)
        /\ kernel.calls[1].res = 0
        /\ kernel.exit[process[o].hProcess_] = Running
        /\ kernel.susp[process[o].hThread_] = 0

\* ----------------------------------------------------------------- C36
\* the ids of a valid Process are those the platform reports for its two handles
ProcessIdsMatch ==
    fixture = "ProcessTest" =>
        \A o \in Objs :
            Process_valid(process[o]) =>
                /\ Process_pid(process[o]) = GetProcessId(process[o].hProcess_, TRUE)
                /\ Process_tid(process[o]) = GetThreadId(process[o].hThread_, TRUE)

\* C36 as stated: in every state, a valid Thread caches the id the platform
\* reports for its handle, and a valid Process caches the ids the platform reports
\* for its process handle and its primary-thread handle
C36_CachedIdsArePlatformIds ==
    /\ ProcessIdsMatch
    /\ fixture = "ThreadTest" =>
           \A o \in Objs :
               Thread_valid(thread[o]) => Thread_get_id(thread[o]) = GetThreadId(thread[o].hThread_, TRUE)

\* C36, amended: the Process half as stated, before and after every step. A valid
\* Thread caches a non-zero id; handle and id of a valid Thread after a step are
\* a pair some Thread held before the step, or the handle and platform id of a
\* thread create has just made, or the handle passed to reset(h, id) with the id
\* the caller supplied when that is not 0 and the platform id when it is 0
C36_CachedIdsArePlatformIdsUnlessSupplied ==
    [][/\ ProcessIdsMatch /\ ProcessIdsMatch'
       /\ fixture = "ThreadTest" =>
              \A o \in Objs :
                  Thread_valid(thread'[o]) =>
                      LET h == thread'[o].hThread_
                          id == Thread_get_id(thread'[o])
                      IN /\ id # 0
                         /\ \/ \E q \in Objs : thread[q] = thread'[o]
                            \/ ReturnedNext("create", o) /\ id = GetThreadId(h, TRUE)
                            \/ /\ ReturnedNext("reset(h,id)", o)
                               /\ h = last'[3]
                               /\ id = (IF last'[4] = 0 THEN GetThreadId(h, TRUE) ELSE last'[4])]_vars

\* a Process adopted with ids that are not its handles' holds the platform's ids
C36_Witness ==
    \E o \in alive :
        /\ fixture = "ProcessTest"
        /\ Returned("Process(h,h,id,id)", o) /\ last[5] = BogusId /\ last[6] = BogusId
        /\ Process_valid(process[o])
        /\ Process_pid(process[o]) = OsPid(process[o].hProcess_) /\ Process_pid(process[o]) # BogusId
        /\ Process_tid(process[o]) = OsTid(process[o].hThread_)

\* ----------------------------------------------------------------- C31
\* object o holds no open file handle
HoldsNoFile(o) == ~IsOpenHandle(disk, file[o].hFile_)

\* C31: every return of File::close() and of ~File(). On a File that holds an
\* open handle the step makes exactly one platform call, the first CloseHandle of
\* that handle, and leaves the File not opened; on a File that is not opened
\* close() returns false, and neither close() nor the destructor makes a platform
\* call. No handle is ever passed to CloseHandle twice
C31_CloseOnce ==
    [][fixture = "FileTest" =>
        /\ \A h \in FileHandles : disk'.closes[h] <= 1
        /\ \A o \in Objs :
              (ReturnedNext("close", o) \/ ReturnedNext("~File", o)) /\ last = <<>> =>
                  LET h == file[o].hFile_
                  IN IF File_is_opened(file[o])
                     THEN /\ IsOpenHandle(disk, h)
                          /\ Len(disk'.calls) = 1
                          /\ disk'.calls[1].api = "CloseHandle" /\ disk'.calls[1].h = h
                          /\ disk.closes[h] = 0 /\ disk'.closes[h] = 1
                          /\ disk'.owner[h] = "closed"
                          /\ ~File_is_opened(file'[o])
                          /\ ReturnedNext("close", o) => ret' = <<TRUE_>>
                     ELSE /\ disk' = disk
                          /\ ~File_is_opened(file'[o])
                          /\ ReturnedNext("close", o) => ret' = <<FALSE_>>]_vars

\* a second close() has returned false without a platform call, on a File whose
\* handle was closed by the first
C31_Witness ==
    \E o \in alive :
        /\ fixture = "FileTest"
        /\ Returned("close", o) /\ ret = <<FALSE_>>
        /\ disk.calls = <<>>
        /\ file[o] = ZeroFile
        /\ \E h \in FileHandles : disk.closes[h] = 1 /\ disk.owner[h] = "closed"
        /\ \A g \in Objs : ~File_is_opened(file[g])

\* ----------------------------------------------------------------- C32
\* C32: every return of an operation on a File that holds no open handle (it was
\* default-constructed, built from a sentinel, moved from, closed, or returned by
\* an open that failed). is_opened() and operator bool return false, read and
\* write of at least one byte return false, getCh(), getFilePointer() and
\* getFileSize() return no value, setFilePointer() and close() return false, and
\* the file and every handle are as before. An open of a file that does not
\* exist with OPEN_EXISTING returns a File that is not opened
C32_NotOpenedFails ==
    [][fixture = "FileTest" =>
        \A o \in Objs :
            /\ (HoldsNoFile(o) /\ o \in alive /\ last = <<>> /\ last' # <<>> /\ last'[2] = o) =>
                  /\ last'[1] \in {"is_opened", "operator bool", "setFilePointer", "close"} => ret' = <<FALSE_>>
                  /\ last'[1] = "read" /\ last'[3] >= 1 => ret' = <<FALSE_, <<>>>>
                  /\ last'[1] = "write" /\ Len(last'[3]) >= 1 => ret' = <<FALSE_>>
                  /\ last'[1] \in {"getCh", "getFilePointer", "getFileSize"} => ret' = <<nullopt>>
                  /\ last'[1] \in {"is_opened", "operator bool", "setFilePointer", "close", "read",
                                   "write", "getCh", "getFilePointer", "getFileSize"} =>
                        /\ disk'.data = disk.data /\ disk'.owner = disk.owner /\ disk'.pos = disk.pos
                        /\ disk'.closes = disk.closes
                        /\ file' = file
            /\ (ReturnedNext("open", o) /\ last = <<>> /\ last'[3] = "OPEN_EXISTING" /\ ~disk.exists) =>
                  /\ ~File_is_opened(file'[o])
                  /\ ~IsOpenHandle(disk', file'[o].hFile_)
                  /\ ~disk'.exists]_vars

\* a read of one byte has returned false on a File that came from an open of a
\* file that does not exist
C32_Witness ==
    \E o \in alive :
        /\ fixture = "FileTest"
        /\ Returned("read", o) /\ last[3] = 1 /\ ret = <<FALSE_, <<>>>>
        /\ ~disk.exists
        /\ file[o] = ZeroFile
        /\ \A h \in FileHandles : disk.owner[h] = "free"

\* ----------------------------------------------------------------- C33
\* the file pointer of the handle object o holds, before and after the step
Pos(o) == disk.pos[file[o].hFile_]
PosNext(o) == disk'.pos[file[o].hFile_]

\* the parts of C33 other than the bytes a read returns: a write of n >= 1 bytes
\* that returns true on an empty file with the pointer at 0 leaves those bytes in
\* the file, and getFileSize() and getFilePointer() then return n; after a
\* setFilePointer(p) that returns true getFilePointer() returns p; a read with the
\* pointer at or after the end returns false and leaves the pointer; getCh()
\* returns the byte at the pointer and advances by one, and returns no value
\* with the pointer at the end
PositionTracking(o) ==
    IsOpenHandle(disk, file[o].hFile_) /\ last = <<>> =>
        /\ (ReturnedNext("write", o) /\ ret' = <<TRUE_>> /\ disk.data = <<>> /\ Pos(o) = 0) =>
              /\ Len(last'[3]) >= 1
              /\ disk'.data = last'[3]
              /\ File_getFileSize(disk', file'[o], TRUE).ret = Len(last'[3])
              /\ File_getFilePointer(disk', file'[o], TRUE).ret = Len(last'[3])
        /\ (ReturnedNext("setFilePointer", o) /\ ret' = <<TRUE_>>) =>
              /\ PosNext(o) = last'[3]
              /\ File_getFilePointer(disk', file'[o], TRUE).ret = last'[3]
        /\ (ReturnedNext("read", o) /\ Pos(o) >= Len(disk.data)) =>
              /\ ret'[1] = FALSE_
              /\ PosNext(o) = Pos(o)
        /\ ReturnedNext("getCh", o) =>
              /\ Pos(o) >= Len(disk.data) => ret' = <<nullopt>>
              /\ (Pos(o) < Len(disk.data) /\ LastRes(disk').ok = TRUE_) => ret' # <<nullopt>>
              /\ IF ret' = <<nullopt>>
                 THEN PosNext(o) = Pos(o)
                 ELSE ret' = <<disk.data[Pos(o) + 1]>> /\ PosNext(o) = Pos(o) + 1
        /\ (ReturnedNext("read", o) \/ ReturnedNext("getCh", o) \/ ReturnedNext("setFilePointer", o)) =>
              disk'.data = disk.data

Active(t) == pc[t] \notin {"idle", "done"}

\* two threads are each before a statement that accesses the same global, and one
\* of the two accesses is a write
DataRace ==
    \E t1 \in Threads, t2 \in Threads :
        /\ t1 # t2 /\ Active(t1) /\ Active(t2)
        /\ Writes(t1, pc[t1]) \cap (Reads(t2, pc[t2]) \cup Writes(t2, pc[t2])) # {}

\* the globals after worker t has run alone from globals m, statement at, locals l
RECURSIVE Alone(_, _, _, _)
Alone(t, m, l, at) ==
    IF at = "done" THEN m
    ELSE LET r == IF t = "min_max" THEN min_max(m, l, at) ELSE average(m, l, at)
         IN Alone(t, r.m, r.l, r.at)

\* the value of global g when _tmain reads it, as a function of n, arr and of
\* whether the worker that writes g was started
Expected(t, g) ==
    IF pc[t] = "idle" THEN 0
    ELSE Alone(t, [mem EXCEPT !.min_el = 0, !.max_el = 0, !.av = 0],
               [i |-> 0, a |-> 0, b |-> 0, sum |-> 0], Entry(t))[g]

\* C37 as stated: the program reaches a state in which two threads access the
\* same global without synchronization, one of them writing
C37_DataRaceReached == <>(fixture = "Main" /\ DataRace)

\* C37, amended: in no reachable state are two threads before conflicting
\* accesses to the same global (the workers only read n and arr, min_max alone
\* reads and writes min_el and max_el, average alone writes av, and _tmain
\* writes before it starts them and reads after it has joined them); when _tmain
\* has read the results both workers have returned or were never started, and the
\* values it has read are those each worker computes when it runs alone
C37_NoDataRace ==
    fixture = "Main" =>
        /\ ~DataRace
        /\ pc["main"] \in {"L93", "L103", "L109", "done"} => \A t \in Workers : ~Active(t)
        /\ pc["main"] = "L103" =>
              /\ mem.min_el = Expected("min_max", "min_el")
              /\ mem.max_el = Expected("min_max", "max_el")
              /\ mem.av = Expected("average", "av")
              /\ ret = <<At(mem, mem.min_el), At(mem, mem.max_el), mem.av>>

\* both workers are running, min_max before a write of min_el and average before
\* its write of av
C37_Witness ==
    /\ fixture = "Main"
    /\ pc["main"] = "L91"
    /\ pc["min_max"] = "L21" /\ pc["average"] = "L62"
    /\ "min_el" \in Writes("min_max", pc["min_max"]) /\ "av" \in Writes("average", pc["average"])

\* ----------------------------------------------------------------- C38
RECURSIVE Sum(_)
Sum(s) == IF s = <<>> THEN 0 ELSE s[1] + Sum(Tail(s))

\* C38: when _tmain reads the results after it has joined both workers, min_el is
\* an index of a least element of arr, max_el an index of a greatest element, and
\* av is the sum of the elements divided by n, truncated towards zero
C38_ResultsCorrect ==
    (fixture = "Main" /\ pc["main"] = "L103" /\ pc["min_max"] = "done" /\ pc["average"] = "done") =>
        /\ mem.min_el \in 0 .. mem.n - 1 /\ mem.max_el \in 0 .. mem.n - 1
        /\ \A i \in 0 .. mem.n - 1 : At(mem, mem.min_el) <= At(mem, i)
        /\ \A i \in 0 .. mem.n - 1 : At(mem, mem.max_el) >= At(mem, i)
        /\ mem.av = IntDiv(Sum(mem.arr), mem.n)

\* what holds of the results: av is as stated, both indexes are inside the array,
\* and min_el and max_el are right whenever n is odd or the last pair of an even
\* n is not descending
C38_ResultsCorrectButLastPair ==
    (fixture = "Main" /\ pc["main"] = "L103" /\ pc["min_max"] = "done" /\ pc["average"] = "done") =>
        /\ mem.min_el \in 0 .. mem.n - 1 /\ mem.max_el \in 0 .. mem.n - 1
        /\ mem.av = IntDiv(Sum(mem.arr), mem.n)
        /\ (mem.n % 2 = 1 \/ mem.arr[mem.n - 1] <= mem.arr[mem.n]) =>
              /\ \A i \in 0 .. mem.n - 1 : At(mem, mem.min_el) <= At(mem, i)
              /\ \A i \in 0 .. mem.n - 1 : At(mem, mem.max_el) >= At(mem, i)

====
